---- MODULE Spec2Model ----
(***************************************************************************)
(* Verification model of the vintage-npm-registry Verdaccio plugin:        *)
(*   - the metadata filter (metadata-filter.ts),                           *)
(*   - the rule store and filter entry point (index.ts),                   *)
(*   - rule-file loading (denylist-parser.ts, allowlist-parser.ts).        *)
(***************************************************************************)
EXTENDS Integers, Sequences, FiniteSets, TLC

(***************************************************************************)
(* Bounds of the model.                                                    *)
(***************************************************************************)
MaxVersions == 2
MaxDenyRules == 2
MaxAllowRules == 1
MaxEnvSteps == 2
MaxCalls == 1
MaxTicks == 1
MaxCloses == 2
MaxLines == 3

(***************************************************************************)
(* Value universes.  Strings stand for themselves; what the library calls  *)
(* (semver, Date) compute on them is tabulated below.                      *)
(***************************************************************************)
Undefined == "undefined"

VersionStrings == {"9.0.0", "10.0.0", "10.1.0-rc.1", "abc"}
\* more version strings, for the choice of the latest tag alone
TagVersionStrings == VersionStrings \cup {"10.1.0-rc.2", "v10", "v2"}
TagNames == {"latest", "beta"}
TimeStrings == {"not-a-date", "2023-01-01", "2024-06-01"}
MetaTimeKeys == {"created", "modified"}

(***************************************************************************)
(* new Date(s).getTime(): days on a small calendar; a negative number      *)
(* stands for NaN (Invalid Date).                                          *)
(***************************************************************************)
DateParse(s) ==
  CASE s = "2023-01-01" -> 1
    [] s = "2024-01-01" -> 2
    [] s = "2024-06-01" -> 3
    [] s = "2024-01-01T00:00:00.000Z" -> 2
    [] OTHER -> -1

isNaN(t) == t < 0

\* Date | undefined
NoDate == [some |-> FALSE, time |-> 0]
SomeDate(t) == [some |-> TRUE, time |-> t]

(***************************************************************************)
(* semver: parse, compare, ranges and satisfies on the universes above.    *)
(* A prerelease identifier is coded by a number that orders as semver      *)
(* orders it (numeric identifiers by value, alphanumeric ones above them). *)
(***************************************************************************)
SemVer(ma, mi, pa, pre) ==
  [valid |-> TRUE, major |-> ma, minor |-> mi, patch |-> pa, prerelease |-> pre]

InvalidSemVer ==
  [valid |-> FALSE, major |-> 0, minor |-> 0, patch |-> 0, prerelease |-> <<>>]

semverParse(v) ==
  CASE v = "9.0.0" -> SemVer(9, 0, 0, <<>>)
    [] v = "10.0.0" -> SemVer(10, 0, 0, <<>>)
    [] v = "10.1.0-rc.1" -> SemVer(10, 1, 0, <<1000, 1>>)
    [] v = "10.1.0-rc.2" -> SemVer(10, 1, 0, <<1000, 2>>)
    [] OTHER -> InvalidSemVer

semverValid(v) == semverParse(v).valid

RECURSIVE comparePre(_, _, _)
comparePre(a, b, i) ==
  IF i > Len(a) /\ i > Len(b) THEN 0
  ELSE IF i > Len(b) THEN 1
  ELSE IF i > Len(a) THEN -1
  ELSE IF a[i] = b[i] THEN comparePre(a, b, i + 1)
  ELSE IF a[i] < b[i] THEN -1 ELSE 1

\* SemVer.compare: main part, then prerelease (a release sorts above its prereleases)
semverCompareParsed(a, b) ==
  IF a.major # b.major THEN (IF a.major < b.major THEN -1 ELSE 1)
  ELSE IF a.minor # b.minor THEN (IF a.minor < b.minor THEN -1 ELSE 1)
  ELSE IF a.patch # b.patch THEN (IF a.patch < b.patch THEN -1 ELSE 1)
  ELSE IF Len(a.prerelease) = 0 /\ Len(b.prerelease) = 0 THEN 0
  ELSE IF Len(a.prerelease) = 0 THEN 1
  ELSE IF Len(b.prerelease) = 0 THEN -1
  ELSE comparePre(a.prerelease, b.prerelease, 1)

semverCompare(v, w) == semverCompareParsed(semverParse(v), semverParse(w))

\* new Range(r): a set of comparator sets, or invalid (the constructor throws)
Comparator(op, sv) == [operator |-> op, semver |-> sv]

rangeParse(r) ==
  CASE r = "10.0.0" ->
         [valid |-> TRUE, set |-> {{Comparator("=", SemVer(10, 0, 0, <<>>))}}]
    [] r = "9.0.0" ->
         [valid |-> TRUE, set |-> {{Comparator("=", SemVer(9, 0, 0, <<>>))}}]
    [] r = "10.1.0-rc.1" ->
         [valid |-> TRUE, set |-> {{Comparator("=", SemVer(10, 1, 0, <<1000, 1>>))}}]
    [] r = "10.1.0-rc.2" ->
         [valid |-> TRUE, set |-> {{Comparator("=", SemVer(10, 1, 0, <<1000, 2>>))}}]
    [] r = ">=9.0.0" ->
         [valid |-> TRUE, set |-> {{Comparator(">=", SemVer(9, 0, 0, <<>>))}}]
    [] r = "^10.0.0" ->
         [valid |-> TRUE, set |-> {{Comparator(">=", SemVer(10, 0, 0, <<>>)),
                                    Comparator("<", SemVer(11, 0, 0, <<0>>))}}]
    [] OTHER -> [valid |-> FALSE, set |-> {}]

comparatorTest(c, sv) ==
  LET d == semverCompareParsed(sv, c.semver) IN
  CASE c.operator = "=" -> d = 0
    [] c.operator = ">=" -> d >= 0
    [] c.operator = "<" -> d < 0
    [] OTHER -> FALSE

\* Range.testSet: a prerelease version only satisfies a comparator set that
\* names a prerelease of the same major.minor.patch
testSet(cs, sv) ==
  /\ \A c \in cs : comparatorTest(c, sv)
  /\ Len(sv.prerelease) > 0 =>
       \E c \in cs : /\ Len(c.semver.prerelease) > 0
                     /\ c.semver.major = sv.major
                     /\ c.semver.minor = sv.minor
                     /\ c.semver.patch = sv.patch

\* semver.satisfies(version, range): false when the range or the version is invalid
semverSatisfies(v, r) ==
  LET rg == rangeParse(r)
      sv == semverParse(v)
  IN  /\ rg.valid
      /\ sv.valid
      /\ \E cs \in rg.set : testSet(cs, sv)

\* Array.prototype.sort() default order (UTF-16 code units) on the version strings
LexRank(v) ==
  CASE v = "10.0.0" -> 1
    [] v = "10.1.0-rc.1" -> 2
    [] v = "10.1.0-rc.2" -> 3
    [] v = "9.0.0" -> 4
    [] v = "abc" -> 5
    [] v = "v10" -> 6
    [] v = "v2" -> 7
    [] OTHER -> 0

(***************************************************************************)
(* Objects (Record<string, T>) are functions on their key sets.            *)
(***************************************************************************)
EmptyObject == [k \in {} |-> Undefined]
Keys(o) == DOMAIN o
Restrict(o, ks) == [k \in ks |-> o[k]]

\* a rule field that may be absent on the object (reads as undefined)
RuleRange(r) == IF "range" \in DOMAIN r THEN r.range ELSE Undefined

(***************************************************************************)
(* metadata-filter.ts                                                      *)
(***************************************************************************)
\* variant: the comparison is the wrong way round (keeps the later cutoff)
getEarliestCutoff_latest(globalCutoff, packageCutoff) ==
  IF ~globalCutoff.some /\ ~packageCutoff.some THEN NoDate
  ELSE IF ~globalCutoff.some THEN packageCutoff
  ELSE IF ~packageCutoff.some THEN globalCutoff
  ELSE IF globalCutoff.time > packageCutoff.time THEN globalCutoff ELSE packageCutoff

getEarliestCutoff(globalCutoff, packageCutoff) ==
  IF ~globalCutoff.some /\ ~packageCutoff.some THEN NoDate
  ELSE IF ~globalCutoff.some THEN packageCutoff
  ELSE IF ~packageCutoff.some THEN globalCutoff
  ELSE IF globalCutoff.time < packageCutoff.time THEN globalCutoff ELSE packageCutoff

\* time is [defined |-> BOOLEAN, map |-> object]
TimeLookup(time, key) ==
  IF time.defined /\ key \in Keys(time.map) THEN time.map[key] ELSE Undefined

\* !s for a string | undefined
Falsy(s) == s = Undefined \/ s = ""

\* variant: the boundary is exclusive (publishDate < cutoff)
filterVersionsByDate_strict(versions, time, cutoff) ==
  LET keep(version) ==
        LET publishDateStr == TimeLookup(time, version) IN
        \/ Falsy(publishDateStr)
        \/ isNaN(DateParse(publishDateStr))
        \/ DateParse(publishDateStr) < cutoff.time
  IN  Restrict(versions, {version \in Keys(versions) : keep(version)})

filterVersionsByDate(versions, time, cutoff) ==
  LET keep(version) ==
        LET publishDateStr == TimeLookup(time, version) IN
        \/ Falsy(publishDateStr)
        \/ isNaN(DateParse(publishDateStr))
        \/ DateParse(publishDateStr) <= cutoff.time
  IN  Restrict(versions, {version \in Keys(versions) : keep(version)})

\* variant: blocked expressions are compared as strings only (no range matching)
removeBlockedVersions_exactOnly(versions, blockedRanges) ==
  IF Len(blockedRanges) = 0 THEN versions
  ELSE LET isBlocked(version) ==
             \E i \in 1..Len(blockedRanges) : version = blockedRanges[i]
       IN  Restrict(versions, {version \in Keys(versions) : ~isBlocked(version)})

removeBlockedVersions(versions, blockedRanges) ==
  IF Len(blockedRanges) = 0 THEN versions
  ELSE LET isBlocked(version) ==
             \E i \in 1..Len(blockedRanges) : semverSatisfies(version, blockedRanges[i])
       IN  Restrict(versions, {version \in Keys(versions) : ~isBlocked(version)})

\* variant: allowlist expressions are compared as strings only (no range matching)
addAllowedVersions_exactOnly(filteredVersions, originalVersions, allowlistRules) ==
  IF Len(allowlistRules) = 0 THEN filteredVersions
  ELSE LET matched(version) ==
             \E i \in 1..Len(allowlistRules) : version = RuleRange(allowlistRules[i])
           added == {version \in Keys(originalVersions) :
                       version \notin Keys(filteredVersions) /\ matched(version)}
       IN  [version \in Keys(filteredVersions) \cup added |->
              IF version \in Keys(filteredVersions) THEN filteredVersions[version]
              ELSE originalVersions[version]]

\* variant: a version named by a rule is added even when the original
\* metadata does not have it
addAllowedVersions_addMissing(filteredVersions, originalVersions, allowlistRules) ==
  IF Len(allowlistRules) = 0 THEN filteredVersions
  ELSE LET matched(version) ==
             \E i \in 1..Len(allowlistRules) :
                semverSatisfies(version, RuleRange(allowlistRules[i]))
           added == {version \in VersionStrings :
                       version \notin Keys(filteredVersions) /\ matched(version)}
       IN  [version \in Keys(filteredVersions) \cup added |->
              IF version \in Keys(filteredVersions) THEN filteredVersions[version]
              ELSE IF version \in Keys(originalVersions) THEN originalVersions[version]
              ELSE [name |-> "lodash", version |-> version]]

addAllowedVersions(filteredVersions, originalVersions, allowlistRules) ==
  IF Len(allowlistRules) = 0 THEN filteredVersions
  ELSE LET matched(version) ==
             \E i \in 1..Len(allowlistRules) :
                semverSatisfies(version, RuleRange(allowlistRules[i]))
           added == {version \in Keys(originalVersions) :
                       version \notin Keys(filteredVersions) /\ matched(version)}
       IN  [version \in Keys(filteredVersions) \cup added |->
              IF version \in Keys(filteredVersions) THEN filteredVersions[version]
              ELSE originalVersions[version]]

\* versions is a set of version strings; the result is a string or Undefined
findLatestVersion(versions) ==
  IF versions = {} THEN Undefined
  ELSE LET validVersions == {v \in versions : semverValid(v)} IN
       IF validVersions = {}
       THEN CHOOSE v \in versions : \A w \in versions : LexRank(w) <= LexRank(v)
       ELSE CHOOSE v \in validVersions :
              \A w \in validVersions : semverCompare(w, v) <= 0

\* variant: stable versions are not preferred
findLatestStableVersion_anyVersion(versions) ==
  IF versions = {} THEN Undefined
  ELSE findLatestVersion(versions)

findLatestStableVersion(versions) ==
  IF versions = {} THEN Undefined
  ELSE LET stable == {v \in versions :
                        semverParse(v).valid /\ Len(semverParse(v).prerelease) = 0}
       IN  IF stable # {} THEN findLatestVersion(stable)
           ELSE findLatestVersion(versions)

\* variant: tags of removed versions are not dropped
fixDistTags_keepAll(distTags, availableVersions) ==
  LET versionList == Keys(availableVersions)
      latest == findLatestStableVersion(versionList)
  IN  IF versionList = {} THEN EmptyObject
      ELSE IF "latest" \notin Keys(distTags) /\ latest # Undefined
           THEN [tag \in Keys(distTags) \cup {"latest"} |->
                   IF tag \in Keys(distTags) THEN distTags[tag] ELSE latest]
           ELSE distTags

\* variant: a tag of a removed version is pointed at the latest available version
fixDistTags_repointAll(distTags, availableVersions) ==
  LET versionList == Keys(availableVersions)
      kept == {tag \in Keys(distTags) : distTags[tag] \in Keys(availableVersions)}
      latest == findLatestStableVersion(versionList)
  IN  IF versionList = {} THEN EmptyObject
      ELSE [tag \in Keys(distTags) \cup {"latest"} |->
              IF tag \in kept THEN distTags[tag] ELSE latest]

fixDistTags(distTags, availableVersions) ==
  LET versionList == Keys(availableVersions)
      kept == {tag \in Keys(distTags) : distTags[tag] \in Keys(availableVersions)}
      latest == findLatestStableVersion(versionList)
  IN  IF versionList = {} THEN EmptyObject
      ELSE IF "latest" \notin kept /\ latest # Undefined
           THEN [tag \in kept \cup {"latest"} |->
                   IF tag \in kept THEN distTags[tag] ELSE latest]
           ELSE Restrict(distTags, kept)

RECURSIVE packageDateCutoffLoop(_, _, _)
packageDateCutoffLoop(rules, i, acc) ==
  IF i > Len(rules) THEN acc
  ELSE LET rule == rules[i] IN
       IF rule.type = "date" /\ (~acc.some \/ rule.cutoffDate < acc.time)
       THEN packageDateCutoffLoop(rules, i + 1, SomeDate(rule.cutoffDate))
       ELSE packageDateCutoffLoop(rules, i + 1, acc)

\* the intermediate values of filterPackageMetadata, in the order it computes them
\* (variant: a rule for the scoped package of the same base name is selected too)
filterStages_scopeIgnored(metadata, options) ==
  LET isForPackage(r) == r.package \in {metadata.name, "@scope/" \o metadata.name}
      isVersionRule(r) == r.type = "version"
      packageDenylistRules == SelectSeq(options.denylistRules, isForPackage)
      versionRules == SelectSeq(packageDenylistRules, isVersionRule)
      blockedRanges == [i \in 1..Len(versionRules) |-> RuleRange(versionRules[i])]
      packageAllowlistRules == SelectSeq(options.allowlistRules, isForPackage)
      packageDateCutoff == packageDateCutoffLoop(packageDenylistRules, 1, NoDate)
      effectiveCutoff == getEarliestCutoff(options.globalCutoff, packageDateCutoff)
      afterDate == IF effectiveCutoff.some
                   THEN filterVersionsByDate(metadata.versions, metadata.time, effectiveCutoff)
                   ELSE metadata.versions
      afterAllow == IF Len(packageAllowlistRules) > 0
                    THEN addAllowedVersions(afterDate, metadata.versions, packageAllowlistRules)
                    ELSE afterDate
      afterDeny == IF Len(blockedRanges) > 0
                   THEN removeBlockedVersions(afterAllow, blockedRanges)
                   ELSE afterAllow
  IN  [effectiveCutoff |-> effectiveCutoff,
       afterDate |-> afterDate,
       afterAllow |-> afterAllow,
       filteredVersions |-> afterDeny]

filterStages(metadata, options) ==
  LET isForPackage(r) == r.package = metadata.name
      isVersionRule(r) == r.type = "version"
      packageDenylistRules == SelectSeq(options.denylistRules, isForPackage)
      versionRules == SelectSeq(packageDenylistRules, isVersionRule)
      blockedRanges == [i \in 1..Len(versionRules) |-> RuleRange(versionRules[i])]
      packageAllowlistRules == SelectSeq(options.allowlistRules, isForPackage)
      packageDateCutoff == packageDateCutoffLoop(packageDenylistRules, 1, NoDate)
      effectiveCutoff == getEarliestCutoff(options.globalCutoff, packageDateCutoff)
      afterDate == IF effectiveCutoff.some
                   THEN filterVersionsByDate(metadata.versions, metadata.time, effectiveCutoff)
                   ELSE metadata.versions
      afterAllow == IF Len(packageAllowlistRules) > 0
                    THEN addAllowedVersions(afterDate, metadata.versions, packageAllowlistRules)
                    ELSE afterDate
      afterDeny == IF Len(blockedRanges) > 0
                   THEN removeBlockedVersions(afterAllow, blockedRanges)
                   ELSE afterAllow
  IN  [effectiveCutoff |-> effectiveCutoff,
       afterDate |-> afterDate,
       afterAllow |-> afterAllow,
       filteredVersions |-> afterDeny]

\* variant: the created and modified timestamps are copied to each other's key
filterPackageMetadata_swapsMetaTimes(metadata, options) ==
  LET filteredVersions == filterStages(metadata, options).filteredVersions
      fixedDistTags == fixDistTags(metadata.distTags, filteredVersions)
      other(k) == IF k = "created" THEN "modified" ELSE "created"
      metaKeys == IF metadata.time.defined
                  THEN {k \in MetaTimeKeys : ~Falsy(TimeLookup(metadata.time, other(k)))}
                  ELSE {}
      versionKeys == IF metadata.time.defined
                     THEN {v \in Keys(filteredVersions) : ~Falsy(TimeLookup(metadata.time, v))}
                     ELSE {}
      filteredTime == [k \in metaKeys \cup versionKeys |->
                         IF k \in metaKeys THEN metadata.time.map[other(k)]
                         ELSE metadata.time.map[k]]
  IN  [name |-> metadata.name,
       versions |-> filteredVersions,
       distTags |-> fixedDistTags,
       time |-> [defined |-> TRUE, map |-> filteredTime],
       readme |-> metadata.readme]

filterPackageMetadata(metadata, options) ==
  LET filteredVersions == filterStages(metadata, options).filteredVersions
      fixedDistTags == fixDistTags(metadata.distTags, filteredVersions)
      metaKeys == IF metadata.time.defined
                  THEN {k \in MetaTimeKeys : ~Falsy(TimeLookup(metadata.time, k))}
                  ELSE {}
      versionKeys == IF metadata.time.defined
                     THEN {v \in Keys(filteredVersions) : ~Falsy(TimeLookup(metadata.time, v))}
                     ELSE {}
      filteredTime == [k \in metaKeys \cup versionKeys |-> metadata.time.map[k]]
  IN  [name |-> metadata.name,
       versions |-> filteredVersions,
       distTags |-> fixedDistTags,
       time |-> [defined |-> TRUE, map |-> filteredTime],
       readme |-> metadata.readme]

(***************************************************************************)
(* parse-utils.ts, denylist-parser.ts, allowlist-parser.ts.                *)
(* Text is a sequence of tokens: a token is a separator ("\n", "\r\n"),    *)
(* a blank (" "), one of the characters "#" and "@", or a run of other     *)
(* characters.                                                             *)
(***************************************************************************)
IsSeparator(tok) == tok = "\n" \/ tok = "\r\n"
IsBlank(tok) == tok = " " \/ tok = "\t"

\* content.split(/\r?\n/)
RECURSIVE splitLines(_, _, _)
splitLines(content, i, cur) ==
  IF i > Len(content) THEN <<cur>>
  ELSE IF IsSeparator(content[i]) THEN <<cur>> \o splitLines(content, i + 1, <<>>)
  ELSE splitLines(content, i + 1, Append(cur, content[i]))

RECURSIVE trimStart(_)
trimStart(line) ==
  IF Len(line) > 0 /\ IsBlank(line[1]) THEN trimStart(Tail(line)) ELSE line

RECURSIVE trimEnd(_)
trimEnd(line) ==
  IF Len(line) > 0 /\ IsBlank(line[Len(line)])
  THEN trimEnd(SubSeq(line, 1, Len(line) - 1)) ELSE line

trim(line) == trimEnd(trimStart(line))

\* position of the last "@" token, 0 when there is none
lastIndexOfAt(line) ==
  LET ats == {i \in 1..Len(line) : line[i] = "@"} IN
  IF ats = {} THEN 0 ELSE CHOOSE i \in ats : \A j \in ats : j <= i

\* the string a token sequence spells
joinTokens(toks) ==
  IF Len(toks) = 1 THEN toks[1]
  ELSE IF toks = <<"@", "scope/lodash">> THEN "@scope/lodash"
  ELSE IF toks = <<"lodash", " ">> THEN "lodash "
  ELSE "<other>"

NoRule == [package |-> Undefined]

\* /^\d{4}-\d{2}-\d{2}/.test(value)
looksLikeDate(value) ==
  value \in {"2023-01-01", "2024-01-01", "2024-06-01", "2024-99-99",
             "2024-01-01T00:00:00.000Z"}

\* !trimmed || trimmed.startsWith('#')
emptyOrComment(trimmed) == Len(trimmed) = 0 \/ trimmed[1] = "#"

isCommentOrBlank(line) == emptyOrComment(trim(line))

NoPair == [ok |-> FALSE, package |-> "", value |-> ""]

\* the two slices of the trimmed line around the "@" at lastAtIndex
slicePackageValue(trimmed, lastAtIndex) ==
  IF lastAtIndex <= 1 THEN NoPair
  ELSE IF lastAtIndex - 1 = 0 \/ Len(trimmed) - lastAtIndex = 0 THEN NoPair
  ELSE [ok |-> TRUE,
        package |-> joinTokens(SubSeq(trimmed, 1, lastAtIndex - 1)),
        value |-> joinTokens(SubSeq(trimmed, lastAtIndex + 1, Len(trimmed)))]

splitPackageValue(trimmed) ==
  IF emptyOrComment(trimmed) THEN NoPair
  ELSE slicePackageValue(trimmed, lastIndexOfAt(trimmed))

\* NoPair is the null result
parsePackageValue(line) == splitPackageValue(trim(line))

\* (variant: a version rule is made only of valid semver or a valid range)
denylistRuleOf_semverOnly(parsed) ==
  IF ~parsed.ok THEN NoRule
  ELSE IF looksLikeDate(parsed.value)
       THEN IF isNaN(DateParse(parsed.value)) THEN NoRule
            ELSE [package |-> parsed.package, type |-> "date",
                  cutoffDate |-> DateParse(parsed.value)]
       ELSE IF ~semverValid(parsed.value) /\ ~rangeParse(parsed.value).valid THEN NoRule
       ELSE [package |-> parsed.package, type |-> "version", version |-> parsed.value]

\* the denylist rule of a package@value pair
denylistRuleOf(parsed) ==
  IF ~parsed.ok THEN NoRule
  ELSE IF looksLikeDate(parsed.value)
       THEN IF isNaN(DateParse(parsed.value)) THEN NoRule
            ELSE [package |-> parsed.package, type |-> "date",
                  cutoffDate |-> DateParse(parsed.value)]
       ELSE [package |-> parsed.package, type |-> "version", version |-> parsed.value]

parseDenylistLine(line) == denylistRuleOf(parsePackageValue(line))

\* the allowlist rule of a package@value pair
allowlistRuleOf(parsed) ==
  IF ~parsed.ok THEN NoRule
  ELSE IF looksLikeDate(parsed.value) THEN NoRule
  ELSE IF ~semverValid(parsed.value) /\ ~rangeParse(parsed.value).valid THEN NoRule
  ELSE [package |-> parsed.package, range |-> parsed.value]

parseAllowlistLine(line) == allowlistRuleOf(parsePackageValue(line))

\* the parseLine callback handed to parseFileContent, by the list it parses
parseLine(list, line) ==
  IF list = "denylist" THEN parseDenylistLine(line) ELSE parseAllowlistLine(line)

\* (variant: the error carries the 0-based index of its line)
parseStep_zeroBased(acc, i, line, list) ==
  IF isCommentOrBlank(line) THEN acc
  ELSE LET rule == parseLine(list, line) IN
       IF rule # NoRule
       THEN [acc EXCEPT !.rules = Append(@, rule)]
       ELSE [acc EXCEPT !.errors = Append(@, [line |-> i - 1, content |-> line])]

\* one iteration of parseFileContent's loop, on line number i
parseStep(acc, i, line, list) ==
  IF isCommentOrBlank(line) THEN acc
  ELSE LET rule == parseLine(list, line) IN
       IF rule # NoRule
       THEN [acc EXCEPT !.rules = Append(@, rule)]
       ELSE [acc EXCEPT !.errors = Append(@, [line |-> i, content |-> line])]

RECURSIVE parseLines(_, _, _, _)
parseLines(lines, i, list, acc) ==
  IF i > Len(lines) THEN acc
  ELSE parseLines(lines, i + 1, list, parseStep(acc, i, lines[i], list))

parseFileContent(content, list) ==
  parseLines(splitLines(content, 1, <<>>), 1, list, [rules |-> <<>>, errors |-> <<>>])

parseDenylistContent(content) == parseFileContent(content, "denylist")
parseAllowlistContent(content) == parseFileContent(content, "allowlist")

\* a file is [exists, readable, content, mtimeMs]; the result says whether the
\* call returned rules or threw, and which error
parseDenylistFile(file) ==
  IF ~file.exists THEN [thrown |-> "FileNotFoundError", rules |-> <<>>, errors |-> <<>>]
  ELSE IF ~file.readable THEN [thrown |-> "Error", rules |-> <<>>, errors |-> <<>>]
  ELSE [thrown |-> "none"] @@ parseDenylistContent(file.content)

parseAllowlistFile(file) ==
  IF ~file.exists THEN [thrown |-> "FileNotFoundError", rules |-> <<>>, errors |-> <<>>]
  ELSE IF ~file.readable THEN [thrown |-> "Error", rules |-> <<>>, errors |-> <<>>]
  ELSE [thrown |-> "none"] @@ parseAllowlistContent(file.content)

(***************************************************************************)
(* index.ts: the rule store's load operations and the filter entry point,  *)
(* as functions of the fields they read.                                   *)
(***************************************************************************)
\* variant: the parsed rules are pushed onto the active array instead of replacing it
loadDenylist_append(configured, file, denylistRules) ==
  IF ~configured
  THEN [rules |-> denylistRules, cause |-> "unconfigured", raised |-> FALSE]
  ELSE LET result == parseDenylistFile(file) IN
       IF result.thrown = "none"
       THEN [rules |-> denylistRules \o result.rules, cause |-> "ok", raised |-> FALSE]
       ELSE IF result.thrown = "FileNotFoundError"
       THEN [rules |-> denylistRules, cause |-> "notfound", raised |-> TRUE]
       ELSE [rules |-> denylistRules, cause |-> "readerror", raised |-> FALSE]

\* variant: a failed load clears the active rules
loadDenylist_clearOnError(configured, file, denylistRules) ==
  IF ~configured
  THEN [rules |-> denylistRules, cause |-> "unconfigured", raised |-> FALSE]
  ELSE LET result == parseDenylistFile(file) IN
       IF result.thrown = "none"
       THEN [rules |-> result.rules, cause |-> "ok", raised |-> FALSE]
       ELSE IF result.thrown = "FileNotFoundError"
       THEN [rules |-> <<>>, cause |-> "notfound", raised |-> TRUE]
       ELSE [rules |-> <<>>, cause |-> "readerror", raised |-> FALSE]

\* variant: a file with a malformed line is treated as a failed read
loadDenylist_rejectMalformed(configured, file, denylistRules) ==
  IF ~configured
  THEN [rules |-> denylistRules, cause |-> "unconfigured", raised |-> FALSE]
  ELSE LET result == parseDenylistFile(file) IN
       IF result.thrown = "none" /\ result.errors = <<>>
       THEN [rules |-> result.rules, cause |-> "ok", raised |-> FALSE]
       ELSE IF result.thrown = "FileNotFoundError"
       THEN [rules |-> denylistRules, cause |-> "notfound", raised |-> TRUE]
       ELSE [rules |-> denylistRules, cause |-> "readerror", raised |-> FALSE]

\* loadDenylist: the new value of this.denylistRules, the error met and
\* whether it is thrown to the caller
loadDenylist(configured, file, denylistRules) ==
  IF ~configured
  THEN [rules |-> denylistRules, cause |-> "unconfigured", raised |-> FALSE]
  ELSE LET result == parseDenylistFile(file) IN
       IF result.thrown = "none"
       THEN [rules |-> result.rules, cause |-> "ok", raised |-> FALSE]
       ELSE IF result.thrown = "FileNotFoundError"
       THEN [rules |-> denylistRules, cause |-> "notfound", raised |-> TRUE]
       ELSE [rules |-> denylistRules, cause |-> "readerror", raised |-> FALSE]

\* variant: a missing file is logged like any other read error
loadAllowlist_swallow(configured, file, allowlistRules) ==
  IF ~configured
  THEN [rules |-> allowlistRules, cause |-> "unconfigured", raised |-> FALSE]
  ELSE LET result == parseAllowlistFile(file) IN
       IF result.thrown = "none"
       THEN [rules |-> result.rules, cause |-> "ok", raised |-> FALSE]
       ELSE IF result.thrown = "FileNotFoundError"
       THEN [rules |-> allowlistRules, cause |-> "notfound", raised |-> FALSE]
       ELSE [rules |-> allowlistRules, cause |-> "readerror", raised |-> FALSE]

loadAllowlist(configured, file, allowlistRules) ==
  IF ~configured
  THEN [rules |-> allowlistRules, cause |-> "unconfigured", raised |-> FALSE]
  ELSE LET result == parseAllowlistFile(file) IN
       IF result.thrown = "none"
       THEN [rules |-> result.rules, cause |-> "ok", raised |-> FALSE]
       ELSE IF result.thrown = "FileNotFoundError"
       THEN [rules |-> allowlistRules, cause |-> "notfound", raised |-> TRUE]
       ELSE [rules |-> allowlistRules, cause |-> "readerror", raised |-> FALSE]

NoMetadata ==
  [name |-> "", versions |-> EmptyObject, distTags |-> EmptyObject,
   time |-> [defined |-> FALSE, map |-> EmptyObject], readme |-> ""]

\* variant: an empty result is returned instead of thrown
filter_metadata_noThrow(metadata, globalCutoff, denylistRules, allowlistRules) ==
  IF ~globalCutoff.some /\ Len(denylistRules) = 0 /\ Len(allowlistRules) = 0
  THEN [outcome |-> "returned", value |-> metadata]
  ELSE [outcome |-> "returned",
        value |-> filterPackageMetadata(metadata,
                    [globalCutoff |-> globalCutoff,
                     denylistRules |-> denylistRules,
                     allowlistRules |-> allowlistRules])]

\* variant: no fast path, the filter always runs
filter_metadata_noFastPath(metadata, globalCutoff, denylistRules, allowlistRules) ==
  LET filtered == filterPackageMetadata(metadata,
                    [globalCutoff |-> globalCutoff,
                     denylistRules |-> denylistRules,
                     allowlistRules |-> allowlistRules])
  IN  IF Cardinality(Keys(filtered.versions)) = 0
      THEN [outcome |-> "AllVersionsFiltered", value |-> NoMetadata]
      ELSE [outcome |-> "returned", value |-> filtered]

\* filter_metadata: the settled promise, a value or a thrown error
filter_metadata(metadata, globalCutoff, denylistRules, allowlistRules) ==
  IF ~globalCutoff.some /\ Len(denylistRules) = 0 /\ Len(allowlistRules) = 0
  THEN [outcome |-> "returned", value |-> metadata]
  ELSE LET filtered == filterPackageMetadata(metadata,
                         [globalCutoff |-> globalCutoff,
                          denylistRules |-> denylistRules,
                          allowlistRules |-> allowlistRules])
           filteredVersionCount == Cardinality(Keys(filtered.versions))
       IN  IF filteredVersionCount = 0
           THEN [outcome |-> "AllVersionsFiltered", value |-> NoMetadata]
           ELSE [outcome |-> "returned", value |-> filtered]

(***************************************************************************)
(* What a call writes.  An object is named by the variable bound to it     *)
(* where the code creates it; "metadata.versions", "metadata.dist-tags"    *)
(* and "metadata.time" are the objects of the argument.  A write is an     *)
(* assignment to a property or an in-place array operation.                *)
(***************************************************************************)
ObjWrite(object, key, value) == [object |-> object, key |-> key, value |-> value]

\* the value written: a manifest, a string, or nothing for a removal
OfManifest(m) == [kind |-> "manifest", manifest |-> m, string |-> ""]
OfString(str) == [kind |-> "string", manifest |-> [name |-> "", version |-> ""], string |-> str]
Removed == [kind |-> "removed", manifest |-> [name |-> "", version |-> ""], string |-> ""]

\* variant: the filter prunes metadata.versions in place
filterPackageMetadataWrites_inPlace(metadata, options) ==
  LET final == filterStages(metadata, options).filteredVersions IN
  {ObjWrite("metadata.versions", v, Removed) :
     v \in Keys(metadata.versions) \ Keys(final)}

filterPackageMetadataWrites(metadata, options) ==
  LET st == filterStages(metadata, options)
      forPackage(rules) == {i \in 1..Len(rules) : rules[i].package = metadata.name}
      hasAllow == forPackage(options.allowlistRules) # {}
      hasBlocked == \E i \in forPackage(options.denylistRules) :
                       options.denylistRules[i].type = "version"
      final == st.filteredVersions
      fixed == fixDistTags(metadata.distTags, final)
      keptTags == {tag \in Keys(metadata.distTags) : metadata.distTags[tag] \in Keys(final)}
      needLatest == Keys(final) # {} /\ "latest" \notin keptTags
      \* findLatestVersion sorts and pops the array of valid versions, or, when
      \* there is none, the array it was given: the caller's versionList
      sorted == IF \E v \in Keys(final) : semverValid(v)
                THEN "findLatestVersion.validVersions"
                ELSE "fixDistTags.versionList"
      out == filterPackageMetadata(metadata, options)
  IN  {ObjWrite("filterPackageMetadata.filteredVersions", v, OfManifest(metadata.versions[v])) :
         v \in Keys(metadata.versions)}
      \cup (IF st.effectiveCutoff.some
            THEN {ObjWrite("filterVersionsByDate.filtered", v, OfManifest(st.afterDate[v])) :
                    v \in Keys(st.afterDate)}
            ELSE {})
      \cup (IF hasAllow
            THEN {ObjWrite("addAllowedVersions.result", v, OfManifest(st.afterAllow[v])) :
                    v \in Keys(st.afterAllow)}
            ELSE {})
      \cup (IF hasBlocked
            THEN {ObjWrite("removeBlockedVersions.filtered", v, OfManifest(final[v])) :
                    v \in Keys(final)}
            ELSE {})
      \cup {ObjWrite("fixDistTags.fixed", tag, OfString(fixed[tag])) : tag \in Keys(fixed)}
      \cup (IF needLatest THEN {ObjWrite(sorted, "length", Removed)} ELSE {})
      \cup {ObjWrite("filterPackageMetadata.filteredTime", k, OfString(out.time.map[k])) :
              k \in Keys(out.time.map)}
      \cup {ObjWrite("filterPackageMetadata.return", k, OfString(k)) :
              k \in {"name", "versions", "dist-tags", "time", "readme"}}

\* filter_metadata writes nothing itself
filter_metadataWrites(metadata, globalCutoff, denylistRules, allowlistRules) ==
  IF ~globalCutoff.some /\ Len(denylistRules) = 0 /\ Len(allowlistRules) = 0
  THEN {}
  ELSE filterPackageMetadataWrites(metadata,
         [globalCutoff |-> globalCutoff,
          denylistRules |-> denylistRules,
          allowlistRules |-> allowlistRules])

\* an object after the writes made to it
objectAfter(obj, name, writes) ==
  LET W == {w \in writes : w.object = name}
      set == {w.key : w \in {x \in W : x.value.kind # "removed"}}
      removed == {w.key : w \in {x \in W : x.value.kind = "removed"}}
      written(k) == (CHOOSE w \in W : w.key = k /\ w.value.kind # "removed").value
  IN  [k \in (Keys(obj) \cup set) \ removed |->
         IF k \notin set THEN obj[k]
         ELSE IF written(k).kind = "manifest" THEN written(k).manifest
         ELSE written(k).string]

\* the argument of a call as it is after the call
metadataAfter(metadata, writes) ==
  [metadata EXCEPT
     !.versions = objectAfter(@, "metadata.versions", writes),
     !.distTags = objectAfter(@, "metadata.dist-tags", writes),
     !.time = [@ EXCEPT !.map = objectAfter(@, "metadata.time", writes)]]

(***************************************************************************)
(* Input universes of the filter.                                          *)
(***************************************************************************)
makeManifest(version) == [name |-> "lodash", version |-> version]

VersionSets == {S \in SUBSET VersionStrings : Cardinality(S) <= MaxVersions}

TimeObjects(S) ==
  {[defined |-> FALSE, map |-> EmptyObject]} \cup
  {[defined |-> TRUE, map |-> m] :
     m \in UNION {[D -> TimeStrings] : D \in SUBSET S}} \cup
  {[defined |-> TRUE,
    map |-> [k \in S \cup MetaTimeKeys \cup {"unpublished"} |->
               IF k \in MetaTimeKeys THEN "2023-01-01" ELSE "2024-06-01"]],
   [defined |-> TRUE,
    map |-> [k \in S \cup MetaTimeKeys |-> IF k = "modified" THEN "2023-01-01" ELSE ""]]}

DistTagObjects ==
  {EmptyObject,
   [t \in {"beta"} |-> "10.1.0-rc.1"],
   [t \in TagNames |-> IF t = "latest" THEN "10.0.0" ELSE "10.1.0-rc.1"]}

MetadataSet ==
  UNION {{[name |-> "lodash",
           versions |-> [v \in S |-> makeManifest(v)],
           distTags |-> d,
           time |-> t,
           readme |-> "README"] : d \in DistTagObjects, t \in TimeObjects(S)}
         : S \in VersionSets}

VersionRule(p, r) == [package |-> p, type |-> "version", range |-> r]
DateRule(p, d) == [package |-> p, type |-> "date", cutoffDate |-> d]
AllowRule(p, r) == [package |-> p, range |-> r]

DenyRuleUniverse ==
  <<VersionRule("lodash", "10.0.0"), VersionRule("lodash", ">=9.0.0"),
    DateRule("lodash", DateParse("2023-01-01")), DateRule("lodash", DateParse("2024-06-01")),
    VersionRule("@scope/lodash", "10.0.0"), DateRule("@scope/lodash", DateParse("2023-01-01"))>>

AllowRuleUniverse ==
  <<AllowRule("lodash", ">=9.0.0"), AllowRule("@scope/lodash", "10.0.0")>>

\* Rule lists of at most n distinct rules of U, in the order of U or reversed.
SeqsUpTo(U, n) ==
  UNION {{[i \in 1..k |-> U[idx[i]]] :
            idx \in {f \in [1..k -> 1..Len(U)] :
                       \/ \A i, j \in 1..k : i < j => f[i] < f[j]
                       \/ \A i, j \in 1..k : i < j => f[i] > f[j]}}
         : k \in 0..n}

GlobalCutoffs == {NoDate, SomeDate(DateParse("2024-01-01"))}

OptionSet ==
  [globalCutoff : GlobalCutoffs,
   denylistRules : SeqsUpTo(DenyRuleUniverse, MaxDenyRules),
   allowlistRules : SeqsUpTo(AllowRuleUniverse, MaxAllowRules)]

(***************************************************************************)
(* Files and requests the plugin is run against.                           *)
(***************************************************************************)
FileContents ==
  {<<>>,
   <<"lodash", "@", "10.0.0", "\n">>,
   <<"lodash", "@", "2023-01-01", "\n", "#", " ", "note", "\n", "\n",
     "lodash", "@", "2024-99-99", "\r\n", " ", "@", "scope/lodash", "@", ">=9.0.0", " ">>,
   <<"@", "scope/lodash", "\n", "lodash", "@", ">=9.0.0">>}

InitialContents == {<<"lodash", "@", "10.0.0", "\n">>}

FileNames == {"denylist", "allowlist"}

ConfigSet ==
  [global_cutoff : {Undefined, "2024-01-01", "not-a-date"},
   denylist_file : BOOLEAN,
   allowlist_file : BOOLEAN,
   watch_denylist : BOOLEAN]

NoConfig ==
  [global_cutoff |-> Undefined, denylist_file |-> FALSE,
   allowlist_file |-> FALSE, watch_denylist |-> FALSE]

RequestMetadata ==
  {[name |-> "lodash", versions |-> EmptyObject, distTags |-> EmptyObject,
    time |-> [defined |-> FALSE, map |-> EmptyObject], readme |-> "README"],
   [name |-> "lodash",
    versions |-> [v \in {"9.0.0", "10.0.0"} |-> makeManifest(v)],
    distTags |-> [t \in {"latest"} |-> "10.0.0"],
    time |-> [defined |-> TRUE,
              map |-> [k \in {"9.0.0", "10.0.0"} |->
                         IF k = "9.0.0" THEN "2023-01-01" ELSE "2024-06-01"]],
    readme |-> "README"]}

(***************************************************************************)
(* State.                                                                  *)
(***************************************************************************)
VARIABLES
  fmeta,             \* filter run: the metadata argument
  fmetaAfter,        \* filter run: the metadata argument's objects after the call
  fopts,             \* filter run: the FilterOptions argument
  fout,              \* filter run: the returned metadata
  fstages,           \* filter run: the intermediate values of the call
  fentry,            \* filter run: what the entry point settles with on the same arguments
  fstage,            \* filter run: "input" before the call, "done" after it
  files,             \* the two rule files on disk
  status,            \* "none" before the constructor runs, then "ready" or "failed"
  exited,            \* the host process has ended on an uncaught exception
  config,            \* this.config
  globalCutoff,      \* this.globalCutoff
  denylistRules,     \* this.denylistRules
  allowlistRules,    \* this.allowlistRules
  denylistWatcher,   \* this.denylistWatcher and the stat it last saw
  allowlistWatcher,  \* this.allowlistWatcher and the stat it last saw
  lastLoad,          \* per file, the last load call: initial or reload, and how it ended
  loads,             \* history: the rule lists of the completed loads, per file
  call,              \* the filter_metadata promise: idle, pending or settled
  nEnv,              \* number of changes made to the files
  nCalls,            \* number of filter_metadata calls made
  watcher,           \* the FileWatcher objects made by watchFile outside the plugin
  statWatchers,      \* fs: per file name, the stat poller's listeners and last stat
  nTicks,            \* number of polls that saw an unchanged stat
  plines,            \* parse run: the lines the content is written from
  pseps,             \* parse run: the separators written between the lines
  pcontent,          \* parse run: the content argument
  plist,             \* parse run: which parser is called, "denylist" or "allowlist"
  presult,           \* parse run: the returned { rules, errors }
  pstage             \* parse run: "idle", "input" before the call, "parsed" after it

filterVars == <<fmeta, fmetaAfter, fopts, fout, fstages, fentry, fstage>>
pluginVars == <<status, exited, config, globalCutoff, denylistRules, allowlistRules>>
watcherVars == <<denylistWatcher, allowlistWatcher>>
vars == <<fmeta, fmetaAfter, fopts, fout, fstages, fentry, fstage, files, status, exited, config,
          globalCutoff,
          denylistRules, allowlistRules, denylistWatcher, allowlistWatcher,
          lastLoad, loads, call, nEnv, nCalls, watcher, statWatchers, nTicks,
          plines, pseps, pcontent, plist, presult, pstage>>
fsWatchVars == <<watcher, statWatchers, nTicks>>
parseVars == <<plines, pseps, pcontent, plist, presult, pstage>>

NoStages ==
  [effectiveCutoff |-> NoDate, afterDate |-> EmptyObject, afterAllow |-> EmptyObject,
   filteredVersions |-> EmptyObject]
NoResult == [outcome |-> "none", value |-> NoMetadata]
NoWatcher == [state |-> "none", prev |-> 0]
NoLoad == [phase |-> "none", cause |-> "none", raised |-> FALSE, n |-> 0]
NoCall ==
  [phase |-> "idle", metadata |-> NoMetadata, denylistRules |-> <<>>,
   allowlistRules |-> <<>>, denyGen |-> 0, allowGen |-> 0,
   result |-> NoResult]

NoFile == [exists |-> FALSE, readable |-> TRUE, content |-> <<>>, mtimeMs |-> 0]

WatcherIds == {"w1", "w2"}
NoStat == [mtimeMs |-> 0, mode |-> 0]
NoFileWatcher ==
  [filePath |-> Undefined, isWatching |-> FALSE, retryTimer |-> FALSE,
   closed |-> 0, calls |-> 0, startedAfterClose |-> FALSE, calledAfterClose |-> FALSE,
   missingAtStart |-> FALSE]
NoStatWatcher == [listeners |-> {}, prev |-> NoStat]

NoParse == [rules |-> <<>>, errors |-> <<>>]

ParseIdle ==
  /\ plines = <<>>
  /\ pseps = <<>>
  /\ pcontent = <<>>
  /\ plist = "denylist"
  /\ presult = NoParse
  /\ pstage = "idle"

WatchIdle ==
  /\ watcher = [w \in WatcherIds |-> NoFileWatcher]
  /\ statWatchers = [f \in FileNames |-> NoStatWatcher]
  /\ nTicks = 0

PluginIdle ==
  /\ status = "none"
  /\ exited = FALSE
  /\ config = NoConfig
  /\ globalCutoff = NoDate
  /\ denylistRules = <<>>
  /\ allowlistRules = <<>>
  /\ denylistWatcher = NoWatcher
  /\ allowlistWatcher = NoWatcher
  /\ lastLoad = [f \in FileNames |-> NoLoad]
  /\ loads = [f \in FileNames |-> <<>>]
  /\ call = NoCall
  /\ nEnv = 0
  /\ nCalls = 0

FilterIdle ==
  /\ fmeta = NoMetadata
  /\ fmetaAfter = NoMetadata
  /\ fopts = [globalCutoff |-> NoDate, denylistRules |-> <<>>, allowlistRules |-> <<>>]
  /\ fout = NoMetadata
  /\ fstages = NoStages
  /\ fentry = NoResult
  /\ fstage = "idle"

(***************************************************************************)
(* The filter as a function of its arguments.                              *)
(***************************************************************************)
FilterInit ==
  /\ fmeta \in MetadataSet
  /\ fmetaAfter = fmeta
  /\ fopts \in OptionSet
  /\ fout = NoMetadata
  /\ fstages = NoStages
  /\ fentry = NoResult
  /\ fstage = "input"
  /\ files = [f \in FileNames |-> NoFile]
  /\ PluginIdle
  /\ WatchIdle
  /\ ParseIdle

ApplyFilter ==
  /\ fstage = "input"
  /\ fout' = filterPackageMetadata(fmeta, fopts)
  /\ fstages' = filterStages(fmeta, fopts)
  /\ fentry' = filter_metadata(fmeta, fopts.globalCutoff, fopts.denylistRules,
                               fopts.allowlistRules)
  /\ fmetaAfter' =
       metadataAfter(fmeta, filter_metadataWrites(fmeta, fopts.globalCutoff,
                                                  fopts.denylistRules, fopts.allowlistRules))
  /\ fstage' = "done"
  /\ UNCHANGED <<parseVars, fmeta, fopts, files, pluginVars, watcherVars, lastLoad, loads, call,
                 nEnv, nCalls, fsWatchVars>>

FilterNext == ApplyFilter

FilterSpec == FilterInit /\ [][FilterNext]_vars

(***************************************************************************)
(* fixDistTags as a function of its arguments: fmeta holds the dist-tags   *)
(* and, as its versions, the available versions.                           *)
(***************************************************************************)
TagInputSet ==
  {[name |-> "lodash",
    versions |-> [v \in S |-> makeManifest(v)],
    distTags |-> d,
    time |-> [defined |-> FALSE, map |-> EmptyObject],
    readme |-> "README"] :
     S \in SUBSET TagVersionStrings,
     d \in DistTagObjects \cup {[t \in {"latest"} |-> "10.1.0-rc.2"]}}

TagInit ==
  /\ fmeta \in TagInputSet
  /\ fmetaAfter = fmeta
  /\ fopts = [globalCutoff |-> NoDate, denylistRules |-> <<>>, allowlistRules |-> <<>>]
  /\ fout = NoMetadata
  /\ fstages = NoStages
  /\ fentry = NoResult
  /\ fstage = "input"
  /\ files = [f \in FileNames |-> NoFile]
  /\ PluginIdle
  /\ WatchIdle
  /\ ParseIdle

ApplyFixDistTags ==
  /\ fstage = "input"
  /\ fout' = [fmeta EXCEPT !.distTags = fixDistTags(fmeta.distTags, fmeta.versions)]
  /\ fstage' = "tagged"
  /\ UNCHANGED <<parseVars, fmeta, fmetaAfter, fopts, fstages, fentry, files, pluginVars, watcherVars, lastLoad,
                 loads, call, nEnv, nCalls, fsWatchVars>>

TagNext == ApplyFixDistTags

TagSpec == TagInit /\ [][TagNext]_vars

(***************************************************************************)
(* The plugin: construction, the watchers' reloads, filter requests, and   *)
(* the changes other processes make to the rule files.                     *)
(***************************************************************************)
Init ==
  /\ FilterIdle
  /\ files \in [FileNames ->
                  {NoFile} \cup
                  {[exists |-> TRUE, readable |-> r, content |-> c, mtimeMs |-> 1] :
                     c \in InitialContents, r \in BOOLEAN}]
  /\ PluginIdle
  /\ WatchIdle
  /\ ParseIdle

\* file-watcher.ts watchFile/startWatching: polling once the file exists
watchFile(file) ==
  IF ~file.exists THEN [state |-> "retry", prev |-> 0]
  ELSE [state |-> "polling", prev |-> file.mtimeMs]

\* stat(file).mtimeMs, zero for a missing file
statMtimeMs(file) == IF file.exists THEN file.mtimeMs ELSE 0

LoadRecord(phase, r, old) ==
  [phase |-> phase, cause |-> r.cause, raised |-> r.raised, n |-> old.n + 1]

\* the rule lists of the completed loads of a file, in order
Completed(f, r, file) ==
  IF r.cause = "ok"
  THEN Append(loads[f],
              IF f = "denylist" THEN parseDenylistFile(file).rules
              ELSE parseAllowlistFile(file).rules)
  ELSE loads[f]

\* new VintagePlugin(config, options)
Construct(cfg) ==
  LET cutoffGiven == cfg.global_cutoff # Undefined
      cutoff == DateParse(cfg.global_cutoff)
      dl == loadDenylist(cfg.denylist_file, files["denylist"], <<>>)
      al == loadAllowlist(cfg.allowlist_file, files["allowlist"], <<>>)
  IN
  /\ status = "none"
  /\ config' = cfg
  /\ UNCHANGED <<filterVars, parseVars, fsWatchVars, files, exited, call, nEnv, nCalls>>
  /\ IF cutoffGiven /\ isNaN(cutoff)
     THEN /\ status' = "failed"
          /\ UNCHANGED <<globalCutoff, denylistRules, allowlistRules, watcherVars,
                         lastLoad, loads>>
     ELSE /\ globalCutoff' = IF cutoffGiven THEN SomeDate(cutoff) ELSE NoDate
          /\ IF cfg.denylist_file /\ dl.raised
             THEN /\ status' = "failed"
                  /\ lastLoad' = [lastLoad EXCEPT
                        !["denylist"] = LoadRecord("initial", dl, @)]
                  /\ UNCHANGED <<denylistRules, allowlistRules, watcherVars, loads>>
             ELSE /\ denylistRules' = dl.rules
                  /\ denylistWatcher' =
                       IF cfg.denylist_file /\ cfg.watch_denylist
                       THEN watchFile(files["denylist"]) ELSE NoWatcher
                  /\ IF cfg.allowlist_file /\ al.raised
                     THEN /\ status' = "failed"
                          /\ UNCHANGED <<allowlistRules, allowlistWatcher>>
                     ELSE /\ status' = "ready"
                          /\ allowlistRules' = al.rules
                          /\ allowlistWatcher' =
                               IF cfg.allowlist_file /\ cfg.watch_denylist
                               THEN watchFile(files["allowlist"]) ELSE NoWatcher
                  /\ lastLoad' =
                       [f \in FileNames |->
                          IF f = "denylist" /\ cfg.denylist_file
                          THEN LoadRecord("initial", dl, lastLoad[f])
                          ELSE IF f = "allowlist" /\ cfg.allowlist_file
                          THEN LoadRecord("initial", al, lastLoad[f])
                          ELSE lastLoad[f]]
                  /\ loads' =
                       [f \in FileNames |->
                          IF f = "denylist" /\ cfg.denylist_file
                          THEN Completed(f, dl, files[f])
                          ELSE IF f = "allowlist" /\ cfg.allowlist_file
                          THEN Completed(f, al, files[f])
                          ELSE loads[f]]

\* an error thrown by onChange leaves the fs.watchFile listener uncaught: the
\* process goes on or ends, as the host's uncaughtException handling decides
uncaughtInListener(r) == IF r.raised THEN BOOLEAN ELSE {FALSE}

\* (variant: a denylist reload also empties the allowlist)
DenylistChanged_clearsAllowlist ==
  LET curr == statMtimeMs(files["denylist"])
      r == loadDenylist(config.denylist_file, files["denylist"], denylistRules)
  IN
  /\ ~exited
  /\ denylistWatcher.state = "polling"
  /\ curr # denylistWatcher.prev
  /\ exited' \in uncaughtInListener(r)
  /\ denylistWatcher' = [denylistWatcher EXCEPT !.prev = curr]
  /\ denylistRules' = r.rules
  /\ allowlistRules' = <<>>
  /\ lastLoad' = [lastLoad EXCEPT !["denylist"] = LoadRecord("reload", r, @)]
  /\ loads' = [loads EXCEPT !["denylist"] = Completed("denylist", r, files["denylist"])]
  /\ UNCHANGED <<filterVars, parseVars, fsWatchVars, files, status, config, globalCutoff,
                 allowlistWatcher, call, nEnv, nCalls>>

\* the denylist watcher's listener sees a changed mtime and calls loadDenylist
DenylistChanged ==
  LET curr == statMtimeMs(files["denylist"])
      r == loadDenylist(config.denylist_file, files["denylist"], denylistRules)
  IN
  /\ ~exited
  /\ denylistWatcher.state = "polling"
  /\ curr # denylistWatcher.prev
  /\ exited' \in uncaughtInListener(r)
  /\ denylistWatcher' = [denylistWatcher EXCEPT !.prev = curr]
  /\ denylistRules' = r.rules
  /\ lastLoad' = [lastLoad EXCEPT !["denylist"] = LoadRecord("reload", r, @)]
  /\ loads' = [loads EXCEPT !["denylist"] = Completed("denylist", r, files["denylist"])]
  /\ UNCHANGED <<filterVars, parseVars, fsWatchVars, files, status, config, globalCutoff, allowlistRules,
                 allowlistWatcher, call, nEnv, nCalls>>

\* the allowlist watcher's listener sees a changed mtime and calls loadAllowlist
AllowlistChanged ==
  LET curr == statMtimeMs(files["allowlist"])
      r == loadAllowlist(config.allowlist_file, files["allowlist"], allowlistRules)
  IN
  /\ ~exited
  /\ allowlistWatcher.state = "polling"
  /\ curr # allowlistWatcher.prev
  /\ exited' \in uncaughtInListener(r)
  /\ allowlistWatcher' = [allowlistWatcher EXCEPT !.prev = curr]
  /\ allowlistRules' = r.rules
  /\ lastLoad' = [lastLoad EXCEPT !["allowlist"] = LoadRecord("reload", r, @)]
  /\ loads' = [loads EXCEPT !["allowlist"] = Completed("allowlist", r, files["allowlist"])]
  /\ UNCHANGED <<filterVars, parseVars, fsWatchVars, files, status, config, globalCutoff, denylistRules,
                 denylistWatcher, call, nEnv, nCalls>>

\* the host calls filter_metadata(metadata): the body runs to its end and
\* leaves a promise to settle
FilterMetadataCall(metadata) ==
  /\ status = "ready"
  /\ ~exited
  /\ call.phase # "pending"
  /\ nCalls < MaxCalls
  /\ nCalls' = nCalls + 1
  /\ call' = [phase |-> "pending",
              metadata |-> metadata,
              denylistRules |-> denylistRules,
              allowlistRules |-> allowlistRules,
              denyGen |-> Len(loads["denylist"]),
              allowGen |-> Len(loads["allowlist"]),
              result |-> filter_metadata(metadata, globalCutoff, denylistRules,
                                         allowlistRules)]
  /\ UNCHANGED <<filterVars, parseVars, fsWatchVars, files, pluginVars, watcherVars, lastLoad, loads, nEnv>>

\* the promise settles and the host sees the result
PromiseSettles ==
  /\ ~exited
  /\ call.phase = "pending"
  /\ call' = [call EXCEPT !.phase = "settled"]
  /\ UNCHANGED <<filterVars, parseVars, fsWatchVars, files, pluginVars, watcherVars, lastLoad, loads, nEnv, nCalls>>

\* another process writes, removes or changes the permissions of a rule file
WriteFile(f, content) ==
  /\ nEnv < MaxEnvSteps
  /\ nEnv' = nEnv + 1
  /\ files' = [files EXCEPT ![f] = [exists |-> TRUE, readable |-> @.readable,
                                    content |-> content, mtimeMs |-> @.mtimeMs + 1]]
  /\ UNCHANGED <<filterVars, parseVars, fsWatchVars, pluginVars, watcherVars, lastLoad, loads, call, nCalls>>

DeleteFile(f) ==
  /\ nEnv < MaxEnvSteps
  /\ files[f].exists
  /\ nEnv' = nEnv + 1
  /\ files' = [files EXCEPT ![f] = [@ EXCEPT !.exists = FALSE, !.content = <<>>]]
  /\ UNCHANGED <<filterVars, parseVars, fsWatchVars, pluginVars, watcherVars, lastLoad, loads, call, nCalls>>

ChangeMode(f) ==
  /\ nEnv < MaxEnvSteps
  /\ files[f].exists
  /\ nEnv' = nEnv + 1
  /\ files' = [files EXCEPT ![f] = [@ EXCEPT !.readable = ~@]]
  /\ UNCHANGED <<filterVars, parseVars, fsWatchVars, pluginVars, watcherVars, lastLoad, loads, call, nCalls>>

Next ==
  \/ \E cfg \in ConfigSet : Construct(cfg)
  \/ DenylistChanged
  \/ AllowlistChanged
  \/ \E metadata \in RequestMetadata : FilterMetadataCall(metadata)
  \/ PromiseSettles
  \/ \E f \in FileNames, content \in FileContents : WriteFile(f, content)
  \/ \E f \in FileNames : DeleteFile(f)
  \/ \E f \in FileNames : ChangeMode(f)

Spec == Init /\ [][Next]_vars

\* a poll of f would call onChange: the plugin's watcher of f is polling and
\* the file's modification time differs from the one it saw last
PollDue(f) ==
  /\ ~exited
  /\ (IF f = "denylist" THEN denylistWatcher ELSE allowlistWatcher).state = "polling"
  /\ statMtimeMs(files[f]) # (IF f = "denylist" THEN denylistWatcher ELSE allowlistWatcher).prev

\* the part of the listener step of f that the stat poller decides: the poll
\* is due and the watcher takes the file's modification time as the last seen
DenylistPoll ==
  /\ PollDue("denylist")
  /\ denylistWatcher' = [denylistWatcher EXCEPT !.prev = statMtimeMs(files["denylist"])]

AllowlistPoll ==
  /\ PollDue("allowlist")
  /\ allowlistWatcher' = [allowlistWatcher EXCEPT !.prev = statMtimeMs(files["allowlist"])]

\* The stat pollers of fs.watchFile keep polling at their interval: a poll
\* that stays due is made.  The steps that change a watcher while its poll is
\* due are exactly the steps of DenylistChanged and of AllowlistChanged.
LiveSpec == Spec /\ WF_denylistWatcher(DenylistPoll) /\ WF_allowlistWatcher(AllowlistPoll)

(***************************************************************************)
(* File watchers on their own: watchFile(filePath, onChange, options) with *)
(* a callback that only counts its invocations.                            *)
(***************************************************************************)
\* fs.Stats of a path as the stat poller reports it: zeroed for a missing file
fsStat(file) ==
  IF file.exists
  THEN [mtimeMs |-> file.mtimeMs, mode |-> IF file.readable THEN 2 ELSE 1]
  ELSE NoStat

\* fs.watchFile(filePath, options, listener): the first listener of a file
\* name starts its stat poller, later ones join it
fsWatchFile(sw, file, w) ==
  [listeners |-> sw.listeners \cup {w},
   prev |-> IF sw.listeners = {} THEN fsStat(file) ELSE sw.prev]

\* fs.unwatchFile(filePath) without a listener argument removes every
\* listener registered for the file name
fsUnwatchFile(sw) == [sw EXCEPT !.listeners = {}]

\* the listener given to fs.watchFile: does it call onChange()?
listener_anyStatChange(curr, prev) == curr # prev
listener(curr, prev) == curr.mtimeMs # prev.mtimeMs

\* startWatching(): re-arm the 5000 ms timer while the file is missing,
\* otherwise register the listener and set isWatching
startWatching(wr, file) ==
  IF ~file.exists
  THEN [wr EXCEPT !.retryTimer = TRUE]
  ELSE [wr EXCEPT !.retryTimer = FALSE, !.isWatching = TRUE,
                  !.startedAfterClose = @ \/ wr.closed > 0]

\* close(): unwatch only when isWatching; a pending retry timer is left alone
close(wr) ==
  [wr EXCEPT !.isWatching = FALSE,
             !.closed = IF @ < MaxCloses THEN @ + 1 ELSE @]

WatcherInit ==
  /\ FilterIdle
  /\ files \in [FileNames ->
                  {NoFile} \cup
                  {[exists |-> TRUE, readable |-> TRUE, content |-> c, mtimeMs |-> 1] :
                     c \in InitialContents}]
  /\ PluginIdle
  /\ WatchIdle
  /\ ParseIdle

\* const w = watchFile(f, onChange, options)
WatchFile(w, f) ==
  /\ watcher[w].filePath = Undefined
  /\ watcher' = [watcher EXCEPT ![w] =
                   startWatching([@ EXCEPT !.filePath = f,
                                           !.missingAtStart = ~files[f].exists], files[f])]
  /\ statWatchers' =
       IF files[f].exists
       THEN [statWatchers EXCEPT ![f] = fsWatchFile(@, files[f], w)]
       ELSE statWatchers
  /\ UNCHANGED <<filterVars, parseVars, files, pluginVars, watcherVars, lastLoad, loads, call,
                 nEnv, nCalls, nTicks>>

\* the 5000 ms timer set by startWatching fires and runs startWatching again
RetryTimerFires(w) ==
  LET f == watcher[w].filePath IN
  /\ watcher[w].retryTimer
  /\ watcher' = [watcher EXCEPT ![w] = startWatching(@, files[f])]
  /\ statWatchers' =
       IF files[f].exists
       THEN [statWatchers EXCEPT ![f] = fsWatchFile(@, files[f], w)]
       ELSE statWatchers
  /\ UNCHANGED <<filterVars, parseVars, files, pluginVars, watcherVars, lastLoad, loads, call,
                 nEnv, nCalls, nTicks>>

\* w.close()
Close(w) ==
  LET f == watcher[w].filePath IN
  /\ f # Undefined
  /\ watcher[w].closed < MaxCloses
  /\ watcher' = [watcher EXCEPT ![w] = close(@)]
  /\ statWatchers' =
       IF watcher[w].isWatching
       THEN [statWatchers EXCEPT ![f] = fsUnwatchFile(@)]
       ELSE statWatchers
  /\ UNCHANGED <<filterVars, parseVars, files, pluginVars, watcherVars, lastLoad, loads, call,
                 nEnv, nCalls, nTicks>>

\* the stat poller of a file name polls: on a changed stat it calls every
\* listener with (curr, prev)
PollTick(f) ==
  LET curr == fsStat(files[f])
      prev == statWatchers[f].prev
  IN
  /\ statWatchers[f].listeners # {}
  /\ IF curr = prev
     THEN /\ nTicks < MaxTicks
          /\ nTicks' = nTicks + 1
          /\ UNCHANGED <<watcher, statWatchers>>
     ELSE /\ statWatchers' = [statWatchers EXCEPT ![f].prev = curr]
          /\ watcher' =
               [w \in WatcherIds |->
                  IF w \in statWatchers[f].listeners /\ listener(curr, prev)
                  THEN [watcher[w] EXCEPT !.calls = @ + 1,
                                          !.calledAfterClose = @ \/ watcher[w].closed > 0]
                  ELSE watcher[w]]
          /\ UNCHANGED nTicks
  /\ UNCHANGED <<filterVars, parseVars, files, pluginVars, watcherVars, lastLoad, loads, call,
                 nEnv, nCalls>>

WatcherNext ==
  \/ \E w \in WatcherIds, f \in FileNames : WatchFile(w, f)
  \/ \E w \in WatcherIds : RetryTimerFires(w)
  \/ \E w \in WatcherIds : Close(w)
  \/ \E f \in FileNames : PollTick(f)
  \/ \E f \in FileNames, content \in InitialContents : WriteFile(f, content)
  \/ \E f \in FileNames : DeleteFile(f)
  \/ \E f \in FileNames : ChangeMode(f)

WatcherSpec == WatcherInit /\ [][WatcherNext]_vars

\* The timers set by setTimeout fire and the stat pollers of fs.watchFile keep
\* polling at their interval.
LiveWatcherSpec ==
  /\ WatcherSpec
  /\ \A w \in WatcherIds : WF_vars(RetryTimerFires(w))
  /\ \A f \in FileNames : WF_vars(PollTick(f))

(***************************************************************************)
(* removeBlockedVersions as a function of its arguments: fmeta holds the   *)
(* versions, fopts the version rules whose expressions are the blocked     *)
(* ranges, fout the result.                                                *)
(***************************************************************************)
BlockExpressions == <<"10.0.0", ">=9.0.0", "^10.0.0", "abc", "10.1.0-rc.1">>

BlockRuleSeqs ==
  UNION {{[i \in 1..k |-> VersionRule("lodash", BlockExpressions[idx[i]])] :
            idx \in {f \in [1..k -> 1..Len(BlockExpressions)] :
                       \A i, j \in 1..k : i # j => f[i] # f[j]}}
         : k \in 0..MaxDenyRules}

BlockInit ==
  /\ \E S \in SUBSET VersionStrings :
       fmeta = [name |-> "lodash",
                versions |-> [v \in S |-> makeManifest(v)],
                distTags |-> EmptyObject,
                time |-> [defined |-> FALSE, map |-> EmptyObject],
                readme |-> "README"]
  /\ fmetaAfter = fmeta
  /\ \E rules \in BlockRuleSeqs :
       fopts = [globalCutoff |-> NoDate, denylistRules |-> rules, allowlistRules |-> <<>>]
  /\ fout = NoMetadata
  /\ fstages = NoStages
  /\ fentry = NoResult
  /\ fstage = "input"
  /\ files = [f \in FileNames |-> NoFile]
  /\ PluginIdle
  /\ WatchIdle
  /\ ParseIdle

ApplyRemoveBlocked ==
  /\ fstage = "input"
  /\ fout' = [fmeta EXCEPT !.versions =
                removeBlockedVersions(fmeta.versions,
                  [i \in 1..Len(fopts.denylistRules) |-> RuleRange(fopts.denylistRules[i])])]
  /\ fstage' = "unblocked"
  /\ UNCHANGED <<parseVars, fmeta, fmetaAfter, fopts, fstages, fentry, files, pluginVars,
                 watcherVars, lastLoad, loads, call, nEnv, nCalls, fsWatchVars>>

BlockNext == ApplyRemoveBlocked

BlockSpec == BlockInit /\ [][BlockNext]_vars

(***************************************************************************)
(* The parsers as functions of the file content.  The content is written   *)
(* line by line, with "\n" or "\r\n" between two lines; a file that ends   *)
(* with a separator has an empty last line.                                *)
(***************************************************************************)
LineUniverse ==
  {<<>>,
   <<" ">>,
   <<"#", "comment">>,
   <<" ", "#", "lodash", "@", "10.0.0">>,
   <<"lodash", "@", "10.0.0">>,
   <<"lodash", "@", "2023-01-01">>,
   <<" ", "lodash">>,
   <<"lodash", "@", "2024-99-99", " ">>}

Separators == {"\n", "\r\n"}

RECURSIVE joinLines(_, _)
joinLines(lines, seps) ==
  IF Len(lines) = 1 THEN lines[1]
  ELSE lines[1] \o <<seps[1]>> \o joinLines(Tail(lines), Tail(seps))

ParseInit ==
  /\ \E k \in 1..MaxLines :
       /\ plines \in [1..k -> LineUniverse]
       /\ pseps \in [1..(k - 1) -> Separators]
  /\ pcontent = joinLines(plines, pseps)
  /\ plist \in FileNames
  /\ presult = NoParse
  /\ pstage = "input"
  /\ FilterIdle
  /\ files = [f \in FileNames |-> NoFile]
  /\ PluginIdle
  /\ WatchIdle

\* const result = parseDenylistContent(content) / parseAllowlistContent(content)
ApplyParse ==
  /\ pstage = "input"
  /\ presult' = (IF plist = "denylist" THEN parseDenylistContent(pcontent)
                 ELSE parseAllowlistContent(pcontent))
  /\ pstage' = "parsed"
  /\ UNCHANGED <<plines, pseps, pcontent, plist, filterVars, files, pluginVars, watcherVars,
                 lastLoad, loads, call, nEnv, nCalls, fsWatchVars>>

ParseNext == ApplyParse

ParseSpec == ParseInit /\ [][ParseNext]_vars

(***************************************************************************)
(* The parsers on one line of the form package@value.                      *)
(***************************************************************************)
LineValues ==
  {"10.0.0", ">=9.0.0", "10.1.0-rc.1", "abc", "2024-1-1",
   "2023-01-01", "2024-99-99", "2024-01-01T00:00:00.000Z"}

ValueLines ==
  UNION {{<<"lodash", "@", v>>, <<" ", "lodash", "@", v>>,
          <<"@", "scope/lodash", "@", v>>, <<"@", "scope/lodash", "@", v, " ">>}
         : v \in LineValues}

LineInit ==
  /\ \E line \in ValueLines : plines = <<line>>
  /\ pseps = <<>>
  /\ pcontent = joinLines(plines, pseps)
  /\ plist \in FileNames
  /\ presult = NoParse
  /\ pstage = "input"
  /\ FilterIdle
  /\ files = [f \in FileNames |-> NoFile]
  /\ PluginIdle
  /\ WatchIdle

LineSpec == LineInit /\ [][ParseNext]_vars

(***************************************************************************)
(* Properties of the rule store.                                           *)
(***************************************************************************)
Rules(f) == IF f = "denylist" THEN denylistRules ELSE allowlistRules
Configured(f) == IF f = "denylist" THEN config.denylist_file ELSE config.allowlist_file

\* the rule list of the g-th completed load of a file; the list before any
\* load is the empty one the fields start with
LoadedRules(f, g) == IF g = 0 THEN <<>> ELSE loads[f][g]

\* C1: the store, and every filter invocation, holds for each file the rule list
\* of exactly one completed load, in full: the one that was latest when the
\* invocation started, whatever reloads complete before its promise settles
C1_SnapshotIsOneLoad ==
  /\ \A f \in FileNames : Rules(f) = LoadedRules(f, Len(loads[f]))
  /\ call.phase # "idle" =>
       /\ call.denyGen <= Len(loads["denylist"])
       /\ call.allowGen <= Len(loads["allowlist"])
       /\ call.denylistRules = LoadedRules("denylist", call.denyGen)
       /\ call.allowlistRules = LoadedRules("allowlist", call.allowGen)
       /\ call.result = filter_metadata(call.metadata, globalCutoff,
                                        LoadedRules("denylist", call.denyGen),
                                        LoadedRules("allowlist", call.allowGen))

C1_Witness ==
  /\ call.phase = "settled"
  /\ call.denyGen >= 1
  /\ call.denyGen < Len(loads["denylist"])
  /\ call.denylistRules # denylistRules
  /\ Len(call.denylistRules) > 0
  /\ Len(denylistRules) > 0

\* C9: a reload that fails (file unreadable, or file not found) leaves the
\* active rule list exactly as it was
C9_FailedReloadKeepsRules ==
  [][\A f \in FileNames :
       (/\ lastLoad'[f].n # lastLoad[f].n
        /\ lastLoad'[f].phase = "reload"
        /\ lastLoad'[f].cause \in {"notfound", "readerror"})
          => Rules(f)' = Rules(f)]_vars

C9_Witness ==
  /\ status = "ready"
  /\ lastLoad["denylist"].phase = "reload"
  /\ lastLoad["denylist"].cause \in {"notfound", "readerror"}
  /\ Len(loads["denylist"]) >= 1
  /\ Len(denylistRules) > 0

FilterDone == fstage = "done"

\* the rules of the snapshot that are for the metadata's package
DenyRulesFor(name) ==
  {fopts.denylistRules[i] : i \in {j \in 1..Len(fopts.denylistRules) :
                                     fopts.denylistRules[j].package = name}}
AllowRulesFor(name) ==
  {fopts.allowlistRules[i] : i \in {j \in 1..Len(fopts.allowlistRules) :
                                      fopts.allowlistRules[j].package = name}}

DenyMatches(v) ==
  \E r \in DenyRulesFor(fmeta.name) :
     r.type = "version" /\ semverSatisfies(v, RuleRange(r))
AllowMatches(v) ==
  \E r \in AllowRulesFor(fmeta.name) : semverSatisfies(v, RuleRange(r))

\* the publish instant of a version of the input: [some |-> FALSE] when the
\* time entry is missing or is not a valid instant
PublishDate(v) ==
  LET s == TimeLookup(fmeta.time, v) IN
  IF s = Undefined \/ isNaN(DateParse(s)) THEN NoDate ELSE SomeDate(DateParse(s))

\* the cutoffs that apply to the input: the global one and the package's date rules
CutoffsInForce ==
  {fopts.globalCutoff.time : x \in {y \in {1} : fopts.globalCutoff.some}} \cup
  {r.cutoffDate : r \in {q \in DenyRulesFor(fmeta.name) : q.type = "date"}}

PublishedAfterCutoff(v) ==
  /\ PublishDate(v).some
  /\ \E c \in CutoffsInForce : PublishDate(v).time > c

\* C2: every value of the output dist-tags is a key of the output versions
C2_DistTagsPointAtVersions ==
  FilterDone =>
    \A tag \in Keys(fout.distTags) : fout.distTags[tag] \in Keys(fout.versions)

C2_Witness ==
  /\ FilterDone
  /\ "latest" \in Keys(fmeta.distTags)
  /\ fmeta.distTags["latest"] \in Keys(fmeta.versions)
  /\ fmeta.distTags["latest"] \notin Keys(fout.versions)
  /\ "latest" \in Keys(fout.distTags)

\* C3: a version matched by a version-kind denylist rule and by an allowlist rule
\* of the package is absent from the output, whatever its publish date
C3_DenylistWins ==
  FilterDone =>
    \A v \in Keys(fmeta.versions) :
       (DenyMatches(v) /\ AllowMatches(v)) => v \notin Keys(fout.versions)

C3_Witness ==
  /\ FilterDone
  /\ \E v \in Keys(fmeta.versions) :
        /\ DenyMatches(v) /\ AllowMatches(v)
        /\ v \notin Keys(fstages.afterDate)
        /\ v \in Keys(fstages.afterAllow)
        /\ v \notin Keys(fout.versions)

\* C4: date filtering with cutoff c keeps a version with a valid instant t iff
\* t <= c, and keeps every version with a missing or invalid time entry
C4_DateFiltering ==
  (FilterDone /\ fstages.effectiveCutoff.some) =>
    \A v \in Keys(fmeta.versions) :
       IF PublishDate(v).some
       THEN (v \in Keys(fstages.afterDate)) <=>
              (PublishDate(v).time <= fstages.effectiveCutoff.time)
       ELSE v \in Keys(fstages.afterDate)

C4_Witness ==
  /\ FilterDone
  /\ fstages.effectiveCutoff.some
  /\ \E v, w \in Keys(fmeta.versions) :
        /\ PublishDate(v).some /\ PublishDate(v).time = fstages.effectiveCutoff.time
        /\ v \in Keys(fstages.afterDate)
        /\ PublishDate(w).some /\ w \notin Keys(fstages.afterDate)

\* C5: the effective cutoff is the earliest of the global cutoff and the
\* package's date-kind cutoffs, there is none when neither is present, and
\* a later per-package date lets nothing through that the global cutoff excludes
C5_EffectiveCutoff ==
  FilterDone =>
    /\ fstages.effectiveCutoff.some <=> (CutoffsInForce # {})
    /\ fstages.effectiveCutoff.some =>
         /\ fstages.effectiveCutoff.time \in CutoffsInForce
         /\ \A c \in CutoffsInForce : fstages.effectiveCutoff.time <= c
    /\ ~fstages.effectiveCutoff.some => fstages.afterDate = fmeta.versions
    /\ fopts.globalCutoff.some =>
         \A v \in Keys(fmeta.versions) :
            (PublishDate(v).some /\ PublishDate(v).time > fopts.globalCutoff.time)
               => v \notin Keys(fstages.afterDate)

C5_Witness ==
  /\ FilterDone
  /\ fopts.globalCutoff.some
  /\ \E r \in DenyRulesFor(fmeta.name) :
        r.type = "date" /\ r.cutoffDate > fopts.globalCutoff.time
  /\ \E v \in Keys(fmeta.versions) :
        /\ PublishDate(v).some
        /\ PublishDate(v).time > fopts.globalCutoff.time
        /\ v \notin Keys(fout.versions)

\* C6: a version of the input published after the effective cutoff, matched by an
\* allowlist rule of the package and by no version-kind denylist rule of it, is in
\* the output with its original manifest
C6_AllowlistExemption ==
  FilterDone =>
    \A v \in Keys(fmeta.versions) :
       (PublishedAfterCutoff(v) /\ AllowMatches(v) /\ ~DenyMatches(v)) =>
          /\ v \in Keys(fout.versions)
          /\ fout.versions[v] = fmeta.versions[v]

C6_Witness ==
  /\ FilterDone
  /\ \E v \in Keys(fmeta.versions) :
        /\ PublishedAfterCutoff(v) /\ AllowMatches(v) /\ ~DenyMatches(v)
        /\ v \notin Keys(fstages.afterDate)
        /\ v \in Keys(fout.versions)

NoRulesAtAll ==
  /\ ~fopts.globalCutoff.some
  /\ Len(fopts.denylistRules) = 0
  /\ Len(fopts.allowlistRules) = 0

\* C7 (as stated): the entry point fails with the all-versions-filtered error
\* whenever the resulting version set is empty, in every rule state, and never
\* returns metadata whose versions mapping is empty
C7_NeverReturnsEmpty ==
  FilterDone =>
    (fentry.outcome = "returned" => Keys(fentry.value.versions) # {})

\* C7 (amended): when a global cutoff is set or a rule list is non-empty, the
\* entry point fails with the all-versions-filtered error iff the filtered
\* version set is empty and returns the filtered metadata otherwise; with no
\* cutoff and both lists empty it returns its input, empty versions included
C7_ErrorIffFilteredEmpty ==
  FilterDone =>
    IF NoRulesAtAll
    THEN fentry.outcome = "returned" /\ fentry.value = fmeta
    ELSE /\ fentry.outcome = "AllVersionsFiltered" <=> (Keys(fout.versions) = {})
         /\ fentry.outcome = "returned" <=> (Keys(fout.versions) # {})
         /\ fentry.outcome = "returned" =>
              (fentry.value = fout /\ Keys(fentry.value.versions) # {})

C7_Witness ==
  /\ FilterDone
  /\ ~NoRulesAtAll
  /\ Keys(fmeta.versions) # {}
  /\ fentry.outcome = "AllVersionsFiltered"

\* C8: with no global cutoff and empty denylist and allowlist the entry point
\* returns metadata equal to its input, for every input
C8_IdentityOnEmptyRules ==
  (FilterDone /\ NoRulesAtAll) =>
    (fentry.outcome = "returned" /\ fentry.value = fmeta)

C8_Witness ==
  /\ FilterDone
  /\ NoRulesAtAll
  /\ fentry.outcome = "returned"
  /\ "latest" \notin Keys(fmeta.distTags)
  /\ \E tag \in Keys(fmeta.distTags) : fmeta.distTags[tag] \notin Keys(fmeta.versions)
  /\ ~fmeta.time.defined
  /\ Keys(fmeta.versions) # {}

(***************************************************************************)
(* Properties of the file watcher.                                         *)
(***************************************************************************)
\* C11 (as stated): once close() has returned, the watcher's callback is never
\* invoked again and no retry or polling timer leads to a later start of
\* polling, whatever state the watcher was closed in.
C11_NothingAfterClose ==
  \A w \in WatcherIds :
    /\ ~watcher[w].startedAfterClose
    /\ ~watcher[w].calledAfterClose
    /\ (watcher[w].closed > 0 => ~watcher[w].isWatching)

\* C12: while polling, the callback is invoked only by a poll that sees a
\* modification time different from the one seen before, once per such poll,
\* and that poll records the new time, so the same change is not reported twice.
C12_CallbackOnlyOnMtimeChange ==
  [][\A w \in WatcherIds :
       watcher'[w].calls # watcher[w].calls =>
         LET f == watcher[w].filePath IN
         /\ w \in statWatchers[f].listeners
         /\ watcher'[w].calls = watcher[w].calls + 1
         /\ fsStat(files[f]).mtimeMs # statWatchers[f].prev.mtimeMs
         /\ statWatchers'[f].prev = fsStat(files[f])]_vars

C12_Witness ==
  \E w \in WatcherIds :
    LET f == watcher[w].filePath IN
    /\ f # Undefined
    /\ w \in statWatchers[f].listeners
    /\ watcher[w].calls = 1
    /\ nEnv = 2
    /\ nTicks = 1
    /\ ~files[f].readable
    /\ statWatchers[f].prev = fsStat(files[f])

(***************************************************************************)
(* Hot reload.                                                             *)
(***************************************************************************)
WatcherOf(f) == IF f = "denylist" THEN denylistWatcher ELSE allowlistWatcher

\* the rules a load of the file as it is now would produce
ParsedRules(f) ==
  IF f = "denylist" THEN parseDenylistFile(files[f]).rules
  ELSE parseAllowlistFile(files[f]).rules

\* the plugin was constructed with a watcher on f, a reload has been triggered
\* for f, so f was modified after the initial load, and f now exists and is
\* readable
ModifiedAndReadable(f) ==
  /\ status = "ready"
  /\ WatcherOf(f).state = "polling"
  /\ lastLoad[f].phase = "reload"
  /\ files[f].exists
  /\ files[f].readable

\* C13 (as stated): when a watched rule file is modified after the initial
\* load and from some moment on stays unchanged and readable, the active rule
\* list eventually equals, and keeps equal to, the rules parsed from the
\* file's final content.
C13_HotReload ==
  \A f \in FileNames :
    <>[]ModifiedAndReadable(f) => <>[](Rules(f) = ParsedRules(f))

(***************************************************************************)
(* The denylist from file to filter result.                                *)
(***************************************************************************)
\* the file contents that hold the line lodash@10.0.0
ExactVersionFiles ==
  {c \in FileContents :
     \E i \in DOMAIN splitLines(c, 1, <<>>) :
        trim(splitLines(c, 1, <<>>)[i]) = <<"lodash", "@", "10.0.0">>}

\* C14 (as stated): once a denylist file with the line lodash@10.0.0 has been
\* loaded into the rule store, no filter result for lodash contains 10.0.0,
\* and with no other rule in force every other version of the input remains.
C14_ListedVersionAbsent ==
  (/\ call.phase # "idle"
   /\ call.metadata.name = "lodash"
   /\ call.denyGen >= 1
   /\ \E c \in ExactVersionFiles : call.denylistRules = parseDenylistContent(c).rules)
    => /\ call.result.outcome = "returned" =>
            "10.0.0" \notin Keys(call.result.value.versions)
       /\ (/\ ~globalCutoff.some
           /\ call.allowlistRules = <<>>
           /\ Keys(call.metadata.versions) \ {"10.0.0"} # {})
            => /\ call.result.outcome = "returned"
               /\ Keys(call.result.value.versions) = Keys(call.metadata.versions) \ {"10.0.0"}

(***************************************************************************)
(* The latest tag.                                                         *)
(***************************************************************************)
IsStable(v) == semverParse(v).valid /\ Len(semverParse(v).prerelease) = 0
IsPrerelease(v) == semverParse(v).valid /\ Len(semverParse(v).prerelease) > 0

\* the latest tag given to fixDistTags names no available version
LatestLost ==
  /\ fstage = "tagged"
  /\ Keys(fmeta.versions) # {}
  /\ ~("latest" \in Keys(fmeta.distTags) /\ fmeta.distTags["latest"] \in Keys(fmeta.versions))

\* C15: when the original latest tag does not survive or is absent and some
\* version survives, the output latest tag is the semver-highest surviving
\* version without a prerelease part; when every surviving version is a
\* prerelease, the semver-highest of them; when no surviving version is valid
\* semver, the greatest version string in code-unit order.
C15_LatestSynthesis ==
  LatestLost =>
    LET avail == Keys(fmeta.versions)
        stable == {v \in avail : IsStable(v)}
    IN  /\ "latest" \in Keys(fout.distTags)
        /\ fout.distTags["latest"] \in avail
        /\ stable # {} =>
             /\ fout.distTags["latest"] \in stable
             /\ \A w \in stable : semverCompare(w, fout.distTags["latest"]) <= 0
        /\ (\A v \in avail : IsPrerelease(v)) =>
             \A w \in avail : semverCompare(w, fout.distTags["latest"]) <= 0
        /\ (\A v \in avail : ~semverValid(v)) =>
             \A w \in avail : LexRank(w) <= LexRank(fout.distTags["latest"])

C15_Witness ==
  /\ LatestLost
  /\ "latest" \in Keys(fmeta.distTags)
  /\ Keys(fmeta.versions) = {"9.0.0", "10.0.0", "10.1.0-rc.1"}
  /\ fout.distTags["latest"] = "10.0.0"

(***************************************************************************)
(* The time mapping of the result.                                         *)
(***************************************************************************)
InputTimeKeys == IF fmeta.time.defined THEN Keys(fmeta.time.map) ELSE {}

\* C16 (as stated): the keys of the output time mapping are exactly created
\* and modified when the input time mapping has them, plus every surviving
\* version that has an entry in the input time mapping; each kept entry has
\* its input value.
C16_TimeKeys ==
  FilterDone =>
    /\ Keys(fout.time.map) =
         (MetaTimeKeys \cap InputTimeKeys) \cup (Keys(fout.versions) \cap InputTimeKeys)
    /\ \A k \in Keys(fout.time.map) : fout.time.map[k] = fmeta.time.map[k]

(***************************************************************************)
(* The versions of the result.                                             *)
(***************************************************************************)
\* C17: the output versions are versions of the input, each with its original
\* manifest; an allowlist rule that matches no version of the input adds
\* nothing.
C17_OutputWithinInput ==
  FilterDone =>
    /\ Keys(fout.versions) \subseteq Keys(fmeta.versions)
    /\ \A v \in Keys(fout.versions) : fout.versions[v] = fmeta.versions[v]
    /\ (\A v \in Keys(fmeta.versions) : ~AllowMatches(v)) =>
         Keys(fout.versions) \subseteq Keys(fstages.afterDate)

C17_Witness ==
  /\ FilterDone
  /\ AllowRulesFor(fmeta.name) # {}
  /\ \A v \in Keys(fmeta.versions) : ~AllowMatches(v)
  /\ Keys(fstages.afterDate) # Keys(fmeta.versions)
  /\ Keys(fout.versions) # {}
  /\ Keys(fout.versions) = Keys(fstages.afterDate)

(***************************************************************************)
(* The argument of a call.                                                 *)
(***************************************************************************)
\* C18: a filter invocation leaves the versions, dist-tags and time mappings
\* of its input metadata as they were, whether it returns or fails.
C18_InputNotMutated ==
  FilterDone => fmetaAfter = fmeta

C18_Witness ==
  /\ FilterDone
  /\ fmetaAfter = fmeta
  /\ fentry.outcome = "returned"
  /\ Keys(fout.versions) # Keys(fmeta.versions)
  /\ fout.distTags # fmeta.distTags
  /\ fmeta.time.defined
  /\ fout.time.map # fmeta.time.map

(***************************************************************************)
(* Rule snapshots that agree on one package.                               *)
(***************************************************************************)
RulesOf(name, rules) == SelectSeq(rules, LAMBDA r : r.package = name)

SameRulesFor(name, o1, o2) ==
  /\ o1.globalCutoff = o2.globalCutoff
  /\ RulesOf(name, o1.denylistRules) = RulesOf(name, o2.denylistRules)
  /\ RulesOf(name, o1.allowlistRules) = RulesOf(name, o2.allowlistRules)

HasRuleForOther(name, rules) == \E i \in 1..Len(rules) : rules[i].package # name

\* C19: two rule snapshots with the same global cutoff and the same denylist
\* and allowlist rules for the metadata's package name produce the same
\* filtered versions, whatever rules they hold for other packages.
C19_OtherPackagesDoNotInterfere ==
  FilterDone =>
    \A o \in {x \in OptionSet : SameRulesFor(fmeta.name, x, fopts)} :
      filterStages(fmeta, o).filteredVersions = fstages.filteredVersions

C19_Witness ==
  /\ FilterDone
  /\ HasRuleForOther(fmeta.name, fopts.denylistRules)
  /\ HasRuleForOther(fmeta.name, fopts.allowlistRules)
  /\ RulesOf(fmeta.name, fopts.denylistRules) # <<>>
  /\ \E i \in 1..Len(fopts.denylistRules) :
       /\ fopts.denylistRules[i] = VersionRule("@scope/lodash", "10.0.0")
       /\ "10.0.0" \in Keys(fout.versions)
  /\ Keys(fout.versions) # Keys(fmeta.versions)
  /\ \E o \in OptionSet :
       /\ SameRulesFor(fmeta.name, o, fopts)
       /\ o # fopts
       /\ ~HasRuleForOther(fmeta.name, o.denylistRules)

(***************************************************************************)
(* The lines of a parsed content.                                          *)
(***************************************************************************)
Parsed == pstage = "parsed"

\* a line that is blank after trimming, or whose first non-blank character is #
Skipped(line) ==
  \/ \A i \in 1..Len(line) : line[i] \in {" ", "\t"}
  \/ \E i \in 1..Len(line) :
       /\ line[i] = "#"
       /\ \A j \in 1..(i - 1) : line[j] \in {" ", "\t"}

OtherLines == {i \in 1..Len(plines) : ~Skipped(plines[i])}
ErrorLines == {presult.errors[j].line : j \in 1..Len(presult.errors)}
RuleLines == OtherLines \ ErrorLines

\* the j-th smallest element of a set of numbers
NthOf(S, j) == CHOOSE x \in S : Cardinality({y \in S : y < x}) = j - 1

\* C20: a line that is blank after trimming or starts with # yields nothing;
\* every other line yields exactly one rule or exactly one error; rules and
\* errors are in file order; an error carries the 1-based number of its line,
\* blank and comment lines counted, with \n or \r\n separators, and the raw line.
C20_EveryLineClassifiedOnce ==
  Parsed =>
    /\ ErrorLines \subseteq OtherLines
    /\ Len(presult.errors) = Cardinality(ErrorLines)
    /\ Len(presult.rules) = Cardinality(RuleLines)
    /\ \A j \in 1..Len(presult.errors) :
         /\ presult.errors[j].line = NthOf(ErrorLines, j)
         /\ presult.errors[j].content = plines[presult.errors[j].line]
    /\ \A j \in 1..Len(presult.rules) :
         /\ presult.rules[j] # NoRule
         /\ presult.rules[j] = parseLine(plist, plines[NthOf(RuleLines, j)])

C20_Witness ==
  /\ Parsed
  /\ Len(plines) = 3
  /\ Skipped(plines[1])
  /\ "\r\n" \in {pseps[i] : i \in 1..Len(pseps)}
  /\ Len(presult.rules) = 1
  /\ Len(presult.errors) = 1
  /\ presult.errors[1].line = 3
  /\ presult.errors[1].content = <<" ", "lodash">>

(***************************************************************************)
(* Loads of files with malformed lines.                                    *)
(***************************************************************************)
\* the rules of the well-formed lines of a sequence of lines, in order
RECURSIVE rulesOfLines(_, _)
rulesOfLines(lines, list) ==
  IF lines = <<>> THEN <<>>
  ELSE (IF parseLine(list, Head(lines)) = NoRule THEN <<>>
        ELSE <<parseLine(list, Head(lines))>>) \o rulesOfLines(Tail(lines), list)

WellFormedRules(f, content) == rulesOfLines(splitLines(content, 1, <<>>), f)

\* a line that is neither blank nor a comment and gives no rule
HasMalformedLine(f, content) ==
  \E i \in 1..Len(splitLines(content, 1, <<>>)) :
    /\ ~isCommentOrBlank(splitLines(content, 1, <<>>)[i])
    /\ parseLine(f, splitLines(content, 1, <<>>)[i]) = NoRule

\* a step that runs a load of f
LoadStep(f) == lastLoad'[f].n # lastLoad[f].n

\* C21: a load, initial or reload, of a readable rule file does not fail when
\* the file holds malformed lines: it installs exactly the rules of the
\* well-formed lines of the file, and no rule comes from a malformed line.
C21_MalformedLinesSkipped ==
  [][\A f \in FileNames :
       (LoadStep(f) /\ files[f].exists /\ files[f].readable) =>
         /\ lastLoad'[f].cause = "ok"
         /\ ~lastLoad'[f].raised
         /\ (IF f = "denylist" THEN denylistRules' ELSE allowlistRules') =
              WellFormedRules(f, files[f].content)]_vars

C21_Witness ==
  \E f \in FileNames :
    /\ status = "ready"
    /\ lastLoad[f].phase = "reload"
    /\ lastLoad[f].cause = "ok"
    /\ files[f].exists /\ files[f].readable
    /\ HasMalformedLine(f, files[f].content)
    /\ WatcherOf(f).prev = files[f].mtimeMs
    /\ Rules(f) # <<>>
    /\ Rules(f) = WellFormedRules(f, files[f].content)

(***************************************************************************)
(* The value of a line.                                                    *)
(***************************************************************************)
\* the characters of a value
CharsOf(value) ==
  CASE value = "10.0.0" -> <<"1", "0", ".", "0", ".", "0">>
    [] value = ">=9.0.0" -> <<">", "=", "9", ".", "0", ".", "0">>
    [] value = "10.1.0-rc.1" -> <<"1", "0", ".", "1", ".", "0", "-", "r", "c", ".", "1">>
    [] value = "abc" -> <<"a", "b", "c">>
    [] value = "2024-1-1" -> <<"2", "0", "2", "4", "-", "1", "-", "1">>
    [] value = "2023-01-01" -> <<"2", "0", "2", "3", "-", "0", "1", "-", "0", "1">>
    [] value = "2024-99-99" -> <<"2", "0", "2", "4", "-", "9", "9", "-", "9", "9">>
    [] value = "2024-01-01T00:00:00.000Z" ->
         <<"2", "0", "2", "4", "-", "0", "1", "-", "0", "1", "T", "0", "0", ":", "0", "0",
           ":", "0", "0", ".", "0", "0", "0", "Z">>

Digits == {"0", "1", "2", "3", "4", "5", "6", "7", "8", "9"}

\* four digits, dash, two digits, dash, two digits, then anything
DateShaped(value) ==
  LET c == CharsOf(value) IN
  /\ Len(c) >= 10
  /\ \A i \in {1, 2, 3, 4, 6, 7, 9, 10} : c[i] \in Digits
  /\ c[5] = "-" /\ c[8] = "-"

\* the value written on the line that was parsed: the token after the last "@"
LineValue == CHOOSE v \in LineValues : \E i \in 1..Len(plines[1]) : plines[1][i] = v
LinePackage ==
  IF \E i \in 1..Len(plines[1]) : plines[1][i] = "scope/lodash"
  THEN "@scope/lodash" ELSE "lodash"

IsError ==
  /\ presult.rules = <<>>
  /\ Len(presult.errors) = 1
  /\ presult.errors[1].line = 1

Started(w) == watcher[w].filePath # Undefined
FilePresent(w) == Started(w) /\ files[watcher[w].filePath].exists

\* the file of w carries a modification its stat poller has not reported yet
ModificationPending(w) ==
  /\ FilePresent(w)
  /\ watcher[w].isWatching
  /\ files[watcher[w].filePath].mtimeMs # statWatchers[watcher[w].filePath].prev.mtimeMs

\* C23: a watcher started on a path that does not exist is not polling and
\* fires no callback; if it is not closed and the file later appears and
\* stays, the watcher eventually enters the polling state, after which a later
\* modification of the file invokes the callback.
C23_MissingPathThenPolling ==
  \A w \in WatcherIds :
    /\ [](watcher[w].retryTimer => (~watcher[w].isWatching /\ watcher[w].calls = 0))
    /\ <>[](watcher[w].missingAtStart /\ watcher[w].closed = 0 /\ FilePresent(w)) =>
         /\ <>watcher[w].isWatching
         /\ \A n \in 0..MaxEnvSteps :
              []((ModificationPending(w) /\ watcher[w].calls = n) => <>(watcher[w].calls > n))

\* no other watcher was started on the path of w
AloneOnPath(w) ==
  \A w2 \in WatcherIds \ {w} :
    ~Started(w2) \/ ~Started(w) \/ watcher[w2].filePath # watcher[w].filePath

\* the same property for a watcher that stays alone on its path
MissingPathThenPolling_Alone ==
  \A w \in WatcherIds :
    ([]AloneOnPath(w) /\
     <>[](watcher[w].missingAtStart /\ watcher[w].closed = 0 /\ FilePresent(w))) =>
      /\ <>watcher[w].isWatching
      /\ \A n \in 0..MaxEnvSteps :
           []((ModificationPending(w) /\ watcher[w].calls = n) => <>(watcher[w].calls > n))

(***************************************************************************)
(* What a reload leaves alone.                                             *)
(***************************************************************************)
\* C24: after construction no operation changes the global cutoff, and a
\* reload of one rule list changes only that list.
C24_ReloadFrame ==
  [][status # "none" =>
       /\ globalCutoff' = globalCutoff
       /\ LoadStep("denylist") => allowlistRules' = allowlistRules
       /\ LoadStep("allowlist") => denylistRules' = denylistRules]_vars

C24_Witness ==
  /\ status = "ready"
  /\ globalCutoff.some
  /\ lastLoad["denylist"].phase = "reload"
  /\ lastLoad["denylist"].cause = "ok"
  /\ lastLoad["allowlist"].phase = "initial"
  /\ Len(loads["denylist"]) = 2
  /\ loads["denylist"][1] # loads["denylist"][2]
  /\ denylistRules = loads["denylist"][2]
  /\ allowlistRules # <<>>
  /\ allowlistRules = loads["allowlist"][1]

(***************************************************************************)
(* Denylist removal.                                                       *)
(***************************************************************************)
Unblocked == fstage = "unblocked"
BlockedExpressions == {RuleRange(fopts.denylistRules[i]) : i \in 1..Len(fopts.denylistRules)}

\* C25 (as stated): a version rule whose expression equals a version key
\* character for character removes that version, also when the string is not
\* valid semver, and a rule whose expression is a semver range removes every
\* version that satisfies it.
C25_ExactOrRange ==
  Unblocked =>
    /\ \A e \in BlockedExpressions :
         e \in Keys(fmeta.versions) => e \notin Keys(fout.versions)
    /\ \A e \in BlockedExpressions, v \in Keys(fmeta.versions) :
         semverSatisfies(v, e) => v \notin Keys(fout.versions)

\* the same with exact equality required of valid semver strings only
ExactOrRange_ValidSemver ==
  Unblocked =>
    /\ \A e \in BlockedExpressions :
         (e \in Keys(fmeta.versions) /\ semverValid(e)) => e \notin Keys(fout.versions)
    /\ \A e \in BlockedExpressions, v \in Keys(fmeta.versions) :
         semverSatisfies(v, e) => v \notin Keys(fout.versions)
    /\ \A v \in Keys(fmeta.versions) :
         (\A e \in BlockedExpressions : ~semverSatisfies(v, e)) => v \in Keys(fout.versions)

(***************************************************************************)
(* The tags of the result.                                                 *)
(***************************************************************************)
Tagged == fstage = "tagged"

NoRuleForPackage ==
  /\ FilterDone
  /\ ~fopts.globalCutoff.some
  /\ RulesOf(fmeta.name, fopts.denylistRules) = <<>>
  /\ RulesOf(fmeta.name, fopts.allowlistRules) = <<>>

\* C27 (as stated): with no global cutoff and no rule for the metadata's
\* package in either list, the filter returns versions, dist-tags and time
\* equal to the input's, also when the lists hold rules for other packages.
C27_NoRuleNoChange ==
  NoRuleForPackage =>
    /\ fentry.outcome = "returned"
    /\ fentry.value.versions = fmeta.versions
    /\ fentry.value.distTags = fmeta.distTags
    /\ fentry.value.time = fmeta.time

\* metadata with a version, whose tags all name versions it has, latest among
\* them, and whose time mapping holds non-empty entries for created, modified
\* and versions it has, and nothing else
WellFormedMetadata ==
  /\ Keys(fmeta.versions) # {}
  /\ "latest" \in Keys(fmeta.distTags)
  /\ \A tag \in Keys(fmeta.distTags) : fmeta.distTags[tag] \in Keys(fmeta.versions)
  /\ fmeta.time.defined
  /\ Keys(fmeta.time.map) \subseteq Keys(fmeta.versions) \cup MetaTimeKeys
  /\ \A k \in Keys(fmeta.time.map) : fmeta.time.map[k] # ""

\* the same for well-formed metadata; the versions are the input's whenever
\* the call returns
NoRuleNoChange_WellFormed ==
  NoRuleForPackage =>
    /\ fentry.outcome = "returned" => fentry.value.versions = fmeta.versions
    /\ WellFormedMetadata =>
         /\ fentry.outcome = "returned"
         /\ fentry.value.distTags = fmeta.distTags
         /\ fentry.value.time = fmeta.time

(***************************************************************************)
(* A constructor that throws.                                              *)
(***************************************************************************)
\* C28 (as stated): when construction fails no file watcher started by the
\* constructor remains active, and no later file change runs a reload on
\* the half-constructed instance.
C28_NoWatcherAfterFailedConstruction ==
  [][/\ status' = "failed" =>
          (denylistWatcher'.state = "none" /\ allowlistWatcher'.state = "none")
     /\ status = "failed" => \A f \in FileNames : ~LoadStep(f)]_vars

\* the same for the failures that happen before any watcher is started: an
\* invalid global cutoff and a missing denylist file
NoWatcherAfterFailedConstruction_Early ==
  (/\ status = "failed"
   /\ \/ (config.global_cutoff # Undefined /\ isNaN(DateParse(config.global_cutoff)))
      \/ (lastLoad["denylist"].phase = "initial" /\ lastLoad["denylist"].cause = "notfound"))
    => (denylistWatcher.state = "none" /\ allowlistWatcher.state = "none")

(***************************************************************************)
(* Watchers next to each other.                                            *)
(***************************************************************************)
\* C29 (as stated): a watcher that is not closed keeps invoking its callback
\* on later changes of its file, whatever other watchers are closed, those on
\* the same path included.
C29_WatchersIndependent ==
  \A w \in WatcherIds :
    <>[](watcher[w].closed = 0 /\ FilePresent(w)) =>
      \A n \in 0..MaxEnvSteps :
        []((ModificationPending(w) /\ watcher[w].calls = n) => <>(watcher[w].calls > n))

\* the same for watchers on different paths
WatchersIndependent_OtherPath ==
  \A w \in WatcherIds :
    ([]AloneOnPath(w) /\ <>[](watcher[w].closed = 0 /\ FilePresent(w))) =>
      \A n \in 0..MaxEnvSteps :
        []((ModificationPending(w) /\ watcher[w].calls = n) => <>(watcher[w].calls > n))

(***************************************************************************)
(* Filtering twice.                                                        *)
(***************************************************************************)
\* C30: when the filtered version set is not empty, filtering the output
\* again with the same rule snapshot yields the versions, dist-tags and time
\* of that output.
C30_Idempotent ==
  (FilterDone /\ Keys(fout.versions) # {}) =>
    /\ filterPackageMetadata(fout, fopts).versions = fout.versions
    /\ filterPackageMetadata(fout, fopts).distTags = fout.distTags
    /\ filterPackageMetadata(fout, fopts).time = fout.time

C30_Witness ==
  /\ FilterDone
  /\ Keys(fout.versions) # {}
  /\ Keys(fout.versions) # Keys(fmeta.versions)
  /\ Keys(fout.versions) # Keys(fstages.afterDate)
  /\ fout.distTags # fmeta.distTags
  /\ fmeta.time.defined
  /\ fout.time.map # fmeta.time.map
  /\ "created" \in Keys(fout.time.map)
  /\ filterPackageMetadata(fout, fopts).versions = fout.versions
  /\ filterPackageMetadata(fout, fopts).time = fout.time

====
